---------------------------- MODULE Spec2Model ----------------------------
(***************************************************************************)
(* State-machine model of the yk_project server: the memory store          *)
(* (server/memory/memtools.py), the sleep-time scheduler                   *)
(* (server/sleep_time/sleeper_agent.py) and the foreground reasoning loop  *)
(* (server/main.py).                                                       *)
(*                                                                         *)
(* Text is modelled by TLA+ strings; Len, SubSeq and \o are Python's len,  *)
(* slicing and concatenation.                                              *)
(***************************************************************************)
EXTENDS Integers, Sequences, FiniteSets, TLC

(***************************************************************************)
(* Bounds of the model and constants of the program                        *)
(***************************************************************************)

\* max_chars given to a block created by vector_memory_edit, and the default
\* read when a block's metadata holds no max_chars.
DEFAULT_MAX_CHARS == 5000

\* max_chars in the metadata of the blocks that exist on disk at start-up.
InitMaxChars == 2

\* Longest content the model lets an edit store (texts longer than the cap of
\* a created block aside).
MaxContentLen == InitMaxChars + 1

(***************************************************************************)
(* Python string helpers                                                   *)
(***************************************************************************)

RECURSIVE Repeat(_, _)
\* s * n
Repeat(s, n) ==
    IF n = 0 THEN ""
    ELSE IF n % 2 = 0
         THEN LET h == Repeat(s, n \div 2) IN h \o h
         ELSE s \o Repeat(s, n - 1)

CharAt(s, i) == SubSeq(s, i, i)

\* str.strip(): leading and trailing whitespace removed.
Strip(s) ==
    IF \A i \in 1..Len(s) : CharAt(s, i) = " " THEN ""
    ELSE LET lo == CHOOSE i \in 1..Len(s) :
                     /\ CharAt(s, i) # " "
                     /\ \A j \in 1..(i - 1) : CharAt(s, j) = " "
             hi == IF CharAt(s, Len(s)) # " " THEN Len(s)
                   ELSE CHOOSE i \in 1..Len(s) :
                          /\ \A j \in (i + 1)..Len(s) : CharAt(s, j) = " "
                          /\ CharAt(s, i) # " "
         IN  SubSeq(s, lo, hi)

\* old occurs in s at position i.
OccursAt(s, old, i) == SubSeq(s, i, i + Len(old) - 1) = old

\* old in s
Contains(s, old) == \E i \in 1..(Len(s) - Len(old) + 1) : OccursAt(s, old, i)

\* s.find(old) + 1, for an old that occurs in s.
Find(s, old) ==
    CHOOSE i \in 1..(Len(s) - Len(old) + 1) :
        /\ OccursAt(s, old, i)
        /\ \A j \in 1..(i - 1) : ~OccursAt(s, old, j)

RECURSIVE Replace(_, _, _)
\* s.replace(old, new) for a non-empty old: every non-overlapping occurrence,
\* leftmost first.
Replace(s, old, new) ==
    IF ~Contains(s, old) THEN s
    ELSE LET i == Find(s, old)
         IN  SubSeq(s, 1, i - 1) \o new
               \o Replace(SubSeq(s, i + Len(old), Len(s)), old, new)

(***************************************************************************)
(* Memory store: server/memory/memtools.py                                 *)
(***************************************************************************)

\* The labels the model edits. "v2" and "human" have no file at start-up.
VectorLabels == {"v1", "v2"}
CoreLabels == {"persona", "human"}

\* A text longer than the cap of a created block.
OverLong == Repeat("z", DEFAULT_MAX_CHARS + 1)

\* The new_text and old_text arguments the model draws.
NewTexts == {"a", " b", OverLong}
OldTexts == {"", "a"}

VARIABLES
    vector_dir,        \* VECTOR_DIR/<label>.json: label -> block file or NoFile
    core_dir,          \* CORE_DIR/<label>.json: label -> block file or NoFile
    embedding_dir,     \* VECTOR_DIR/<label>.embedding.json: label -> artifact or NoFile
    cache_file,        \* CACHE_FILE: the embedding cache set
    now,               \* datetime.now(): the block files of start-up were written at 0
    lastCall,          \* the most recent call of the store: operation, label, return value
    editedSinceEmbed   \* history: the vector labels edited since embed_all last completed

memVars == <<vector_dir, core_dir, embedding_dir, cache_file, now, lastCall,
             editedSinceEmbed>>

\* The calls of the store that run concurrently.
VARIABLES
    proc    \* per thread: the program counter and the locals of its call

concVars == <<proc>>

\* The sleep-time scheduler.
VARIABLES
    state,                  \* AgentState
    main_ai_active,         \* the foreground-active flag
    last_main_ai_activity,  \* timestamp of the last handled event, or None
    task_queue,             \* queue.Queue of MemoryTask
    event_queue,            \* queue.Queue of SystemEvent
    shutdown_event,         \* threading.Event
    loop_pc,                \* position of _main_loop
    task,                   \* the task _main_loop holds
    wake_at,                \* when the running time.sleep returns
    clock,                  \* datetime.now()
    tasks_added,            \* tasks created so far
    lastNotify,             \* history: time of the last start/end notification
    notifications,          \* history: notifications so far
    turns_open              \* history: foreground turns that started and have not ended

schedVars == <<state, main_ai_active, last_main_ai_activity, task_queue,
               event_queue, shutdown_event, loop_pc, task, wake_at, clock,
               tasks_added, lastNotify, notifications, turns_open>>

\* The foreground turn.
VARIABLES
    ai_initialized,         \* EnhancedAILLM.ai_initialized and llm
    context,                \* the conversation context (a global of main.py)
    recall,                 \* rows of the recall database
    conversation_history,   \* EnhancedAILLM.conversation_history
    message_counter,        \* EnhancedAILLM.message_counter
    turn,                   \* position and locals of generate_response_stream
    sent                    \* history: what the generator has yielded so far

turnVars == <<ai_initialized, context, recall, conversation_history,
              message_counter, turn, sent>>

\* The background task of the sleep-time agent.
VARIABLES
    agent_context,          \* SleepTimeAgent.context
    process                 \* position, locals and history of _process_task

processVars == <<agent_context, process>>

\* The concurrent scheduler: the fields of the scheduler, and
VARIABLES
    processing              \* AsyncSleepTimeAgent._processing_tasks

asyncVars == <<processing>>

\* One call of a function of the utilities, followed statement by statement.
VARIABLES
    trim,                   \* arguments, locals and position of trim_context
    batch                   \* the same of process_tool_calls

\* The recall database.
VARIABLES
    recalled_messages,      \* the rows of the table, in the order of their ids
    db_clock,               \* CURRENT_TIMESTAMP, in seconds
    search                  \* the last conversation_search: arguments and result

recallVars == <<recalled_messages, db_clock, search>>

\* The LLM gateway.
VARIABLES
    llm                     \* the LLM object and the query stream it is producing

callVars == <<trim, batch, recallVars, llm>>

\* What the actions of each part leave alone.
outsideStore == <<concVars, schedVars, turnVars, processVars, asyncVars, callVars>>
outsideConcStore == <<schedVars, turnVars, processVars, asyncVars, callVars>>
outsideScheduler == <<memVars, concVars, turnVars, processVars, asyncVars, callVars>>
outsideTurn == <<memVars, concVars, processVars, asyncVars, callVars>>
outsideProcess == <<memVars, concVars, schedVars, turnVars, asyncVars, callVars>>
\* What the tools of the background task leave alone.
outsideAgent == <<concVars, schedVars, turnVars, asyncVars, callVars>>
outsideAsync == <<memVars, concVars, turnVars, processVars, callVars>>
outsideCalls == <<memVars, concVars, schedVars, turnVars, processVars, asyncVars>>
outsideTrim == <<outsideCalls, batch, recallVars, llm>>
outsideBatch == <<outsideCalls, trim, recallVars, llm>>
outsideRecall == <<outsideCalls, trim, batch, llm>>
outsideGateway == <<outsideCalls, trim, batch, recallVars>>

NoFile == [exists |-> FALSE]

\* The JSON document of a block: content and metadata.
Block(content, last_updated, current_chars, max_chars) ==
    [exists |-> TRUE, content |-> content, last_updated |-> last_updated,
     current_chars |-> current_chars, max_chars |-> max_chars]

\* ai.embed(EMBED_MODEL, text): the vector is a function of the text alone, so
\* an artifact is modelled by the text it was computed from.
embed(text) == [exists |-> TRUE, of |-> text]

Call(op, label, ret) == [op |-> op, label |-> label, ret |-> ret]

IsSuccess(ret) == Len(ret) >= 8 /\ SubSeq(ret, 1, 8) = "Success:"
IsFailed(ret) == Len(ret) >= 7 /\ SubSeq(ret, 1, 7) = "Failed:"

\* The content an edit of an existing block computes (replace or append).
EditedContent(content, new_text, old_text) ==
    IF old_text # ""
    THEN IF Contains(content, old_text)
         THEN Replace(content, old_text, new_text)
         ELSE Strip(content \o " " \o new_text)
    ELSE Strip(content \o " " \o new_text)

\* The block vector_memory_edit writes for a label that has no file.
CreatedBlock(new_text, t) ==
    Block(Strip(new_text), t, Len(Strip(new_text)), DEFAULT_MAX_CHARS)

\* A size check that also refuses a content of exactly max_chars.
ExceedsLimit_AtLimit(current_chars, max_chars) == current_chars >= max_chars

\* The size check of an edit of an existing block.
ExceedsLimit(current_chars, max_chars) == current_chars > max_chars

\* The block an accepted edit of an existing block writes back.
UpdatedBlock(data, content, t) ==
    Block(content, t, Len(content), data.max_chars)

\* A clear_cache that forgets to discard the label.
CacheWithout_Kept(cache, label) == cache

\* clear_cache(label=label) applied to a cache set.
CacheWithout(cache, label) == cache \ {label}

FailedExceeds(max_chars) ==
    "Failed: Updated content exceeds max character limit of "
        \o ToString(max_chars) \o "."

vector_memory_edit(label, new_text, old_text) ==
    LET data == vector_dir[label] IN
    IF ~data.exists
    THEN /\ vector_dir' = [vector_dir EXCEPT ![label] = CreatedBlock(new_text, now)]
         /\ lastCall' = Call("vector_memory_edit", label,
                "Success: New vector memory block '" \o label \o "' created.")
         /\ editedSinceEmbed' = editedSinceEmbed \cup {label}
         /\ UNCHANGED <<core_dir, embedding_dir, cache_file, now>>
    ELSE LET content == EditedContent(data.content, new_text, old_text) IN
         IF ExceedsLimit(Len(content), data.max_chars)
         THEN /\ lastCall' = Call("vector_memory_edit", label,
                     FailedExceeds(data.max_chars))
              /\ UNCHANGED <<vector_dir, core_dir, embedding_dir, cache_file, now,
                             editedSinceEmbed>>
         ELSE /\ cache_file' = CacheWithout(cache_file, label)
              /\ vector_dir' = [vector_dir EXCEPT ![label] = UpdatedBlock(data, content, now)]
              /\ lastCall' = Call("vector_memory_edit", label,
                     "Success: Vector memory block '" \o label \o "' updated.")
              /\ editedSinceEmbed' = editedSinceEmbed \cup {label}
              /\ UNCHANGED <<core_dir, embedding_dir, now>>

\* A core edit that writes a new block whatever the label, as the vector
\* edit does for a label without a file.
core_memory_edit_Creates(label, new_text, old_text) ==
    /\ core_dir' = [core_dir EXCEPT ![label] = CreatedBlock(new_text, now)]
    /\ lastCall' = Call("core_memory_edit", label,
           "Success: New core memory block '" \o label \o "' created.")
    /\ UNCHANGED <<vector_dir, embedding_dir, cache_file, now, editedSinceEmbed>>

core_memory_edit(label, new_text, old_text) ==
    LET data == core_dir[label] IN
    IF ~data.exists
    THEN /\ lastCall' = Call("core_memory_edit", label,
                "Failed: Core memory block '" \o label \o "' does not exist.")
         /\ UNCHANGED <<vector_dir, core_dir, embedding_dir, cache_file, now,
                        editedSinceEmbed>>
    ELSE LET content == EditedContent(data.content, new_text, old_text) IN
         IF ExceedsLimit(Len(content), data.max_chars)
         THEN /\ lastCall' = Call("core_memory_edit", label,
                     FailedExceeds(data.max_chars))
              /\ UNCHANGED <<vector_dir, core_dir, embedding_dir, cache_file, now,
                             editedSinceEmbed>>
         ELSE /\ core_dir' = [core_dir EXCEPT ![label] = UpdatedBlock(data, content, now)]
              /\ lastCall' = Call("core_memory_edit", label,
                     "Success: Vector memory block '" \o label \o "' updated.")
              /\ UNCHANGED <<vector_dir, embedding_dir, cache_file, now,
                             editedSinceEmbed>>

\* The labels embed_all embeds, given the cache set it loaded: the block files
\* whose label is not cached and whose stripped content is not empty.
ToEmbed(cache) ==
    {l \in VectorLabels : /\ vector_dir[l].exists
                          /\ l \notin cache
                          /\ Strip(vector_dir[l].content) # ""}

\* The files and the cache set embed_all leaves behind.
EmbedAllFiles ==
    [l \in VectorLabels |->
        IF l \in ToEmbed(cache_file) THEN embed(Strip(vector_dir[l].content))
        ELSE embedding_dir[l]]

\* A save_cache that writes only the labels embedded by this call.
EmbedAllCache_OnlyNew == ToEmbed(cache_file)

EmbedAllCache == cache_file \cup ToEmbed(cache_file)

embed_all ==
    /\ embedding_dir' = EmbedAllFiles
    /\ cache_file' = EmbedAllCache
    /\ lastCall' = Call("embed_all", "",
          "Embedding complete. " \o ToString(Cardinality(ToEmbed(cache_file)))
              \o " new files embedded.")
    /\ editedSinceEmbed' = {}
    /\ UNCHANGED <<vector_dir, core_dir, now>>
    /\ UNCHANGED outsideStore

\* The vector ai.embed gives for a text: the embedding model is outside the
\* program; the one of the model tells texts with "a", with "b", with both
\* and with neither apart.
EmbedVector(text) ==
    IF Contains(text, "a") /\ Contains(text, "b") THEN <<3, 4>>
    ELSE IF Contains(text, "a") THEN <<1, 0>>
    ELSE IF Contains(text, "b") THEN <<0, 1>>
    ELSE <<0, 0>>

\* math.sqrt of the sums of squares that occur, which are squares.
Sqrt(n) == CHOOSE r \in 0..n : r * r = n

\* round(cosine_similarity(vec1, vec2), 5), counted in units of 0.00001.
cosine_similarity(vec1, vec2) ==
    LET dot == vec1[1] * vec2[1] + vec1[2] * vec2[2]
        norm1 == Sqrt(vec1[1] * vec1[1] + vec1[2] * vec1[2])
        norm2 == Sqrt(vec2[1] * vec2[1] + vec2[2] * vec2[2])
    IN  IF norm1 = 0 \/ norm2 = 0 THEN 0
        ELSE (dot * 100000) \div (norm1 * norm2)

\* The results vector_search collects from the files, in the order in which
\* os.listdir names the block files.
RECURSIVE Collected(_, _, _)
Collected(listing, query, threshold) ==
    IF listing = <<>> THEN <<>>
    ELSE LET label == Head(listing)
             rest == Collected(Tail(listing), query, threshold)
             content == Strip(vector_dir[label].content)
             score == cosine_similarity(EmbedVector(query),
                                        EmbedVector(EmbedAllFiles[label].of))
         IN  IF ~EmbedAllFiles[label].exists THEN rest
             ELSE IF content = "" THEN rest
             ELSE IF score < threshold THEN rest
             ELSE <<[label |-> label, content |-> content, score |-> score]>> \o rest

\* results.sort(key=score, reverse=True): results of one score keep the
\* order in which they were collected.
RECURSIVE SortedByScore(_)
SortedByScore(results) ==
    IF results = <<>> THEN <<>>
    ELSE LET r == Head(results)
             sorted == SortedByScore(Tail(results))
             ahead == SelectSeq(sorted, LAMBDA x : x.score > r.score)
             behind == SelectSeq(sorted, LAMBDA x : x.score <= r.score)
         IN  ahead \o <<r>> \o behind

\* The orders in which os.listdir may name the block files.
Listings ==
    LET files == {l \in VectorLabels : vector_dir[l].exists}
    IN  {listing \in [1..Cardinality(files) -> files] :
            \A i, j \in 1..Cardinality(files) : i # j => listing[i] # listing[j]}

\* vector_search: embed_all(), then the files are only read.
vector_search(query, top_n, threshold, listing) ==
    /\ embedding_dir' = EmbedAllFiles
    /\ cache_file' = EmbedAllCache
    /\ lastCall' =
          [op |-> "vector_search", label |-> "", ret |-> "",
           query |-> query, top_n |-> top_n, threshold |-> threshold,
           results |->
              LET sorted == SortedByScore(Collected(listing, query, threshold))
              IN  SubSeq(sorted, 1, IF top_n < Len(sorted) THEN top_n ELSE Len(sorted))]
    /\ editedSinceEmbed' = {}
    /\ UNCHANGED <<vector_dir, core_dir, now>>
    /\ UNCHANGED outsideStore

clear_cache(label, clear_all) ==
    /\ cache_file' = IF clear_all THEN {} ELSE CacheWithout(cache_file, label)
    /\ lastCall' = Call("clear_cache", label, "")
    /\ UNCHANGED <<vector_dir, core_dir, embedding_dir, now, editedSinceEmbed>>
    /\ UNCHANGED outsideStore

\* The model explores an edit only if the content it would store stays short.
WithinBound(dir, label, new_text, old_text) ==
    IF ~dir[label].exists THEN TRUE
    ELSE LET c == EditedContent(dir[label].content, new_text, old_text)
         IN  Len(c) <= MaxContentLen \/ ExceedsLimit(Len(c), dir[label].max_chars)

\* The block files found at start-up.
InitVectorDir ==
    [l \in VectorLabels |-> IF l = "v1" THEN Block("a", 0, 1, InitMaxChars) ELSE NoFile]

InitCoreDir ==
    [l \in CoreLabels |-> IF l = "persona" THEN Block("a", 0, 1, InitMaxChars) ELSE NoFile]

\* The files the two start-up states share.
BlocksAtStart ==
    /\ vector_dir = InitVectorDir
    /\ core_dir = InitCoreDir
    /\ now = 1
    /\ lastCall = Call("", "", "")
    /\ editedSinceEmbed = {}

\* Nothing embedded yet.
FreshStore ==
    /\ BlocksAtStart
    /\ embedding_dir = [l \in VectorLabels |-> NoFile]
    /\ cache_file = {}

\* An earlier run has embedded the blocks.
EmbeddedStore ==
    /\ BlocksAtStart
    /\ embedding_dir = [l \in VectorLabels |->
          IF l = "v1" THEN embed("a") ELSE NoFile]
    /\ cache_file = {"v1"}

MemInit == FreshStore \/ EmbeddedStore

VectorEdit ==
    \E label \in VectorLabels, new_text \in NewTexts, old_text \in OldTexts :
        /\ WithinBound(vector_dir, label, new_text, old_text)
        /\ vector_memory_edit(label, new_text, old_text)
        /\ UNCHANGED outsideStore

CoreEdit ==
    \E label \in CoreLabels, new_text \in NewTexts, old_text \in OldTexts :
        /\ WithinBound(core_dir, label, new_text, old_text)
        /\ core_memory_edit(label, new_text, old_text)
        /\ UNCHANGED outsideStore

ClearCache ==
    \/ \E label \in VectorLabels : clear_cache(label, FALSE)
    \/ clear_cache("", TRUE)

\* vector_search with its default top_n and threshold.
VectorSearch ==
    \E listing \in Listings : vector_search("a", 2, 40000, listing)

\* vector_search with the arguments the model draws.
VectorQueries == {"a", "a b"}
TopNs == 0..2
Thresholds == {0, 40000, 80000}

AnyVectorSearch ==
    \E query \in VectorQueries, top_n \in TopNs, threshold \in Thresholds,
       listing \in Listings :
        vector_search(query, top_n, threshold, listing)

MemNext ==
    \/ VectorEdit
    \/ CoreEdit
    \/ embed_all
    \/ VectorSearch
    \/ ClearCache



(***************************************************************************)
(* Memory store, calls running concurrently.  The functions of memtools.py *)
(* take no lock; a step is one file read or one file write.                *)
(***************************************************************************)

\* Two threads that each run one edit, and one that runs embed_all.
Writers == {"w1", "w2"}
Embedders == {"e"}
Procs == Writers \cup Embedders

\* The arguments the concurrent edits draw.
ConcNewTexts == {"a", " b"}
ConcCoreLabels == {"persona"}

\* A thread that has not called yet.
Idle == [pc |-> "idle", op |-> "", label |-> "", new_text |-> "", old_text |-> "",
         data |-> NoFile, content |-> "", cache |-> {}, updated_cache |-> {},
         todo |-> {}, ret |-> ""]

ConcInit == proc = [p \in Procs |-> Idle]

\* The call begins: vector_memory_edit(label, new_text, old_text).
StartVectorEdit(p) ==
    /\ p \in Writers
    /\ proc[p].pc = "idle"
    /\ \E label \in VectorLabels, new_text \in ConcNewTexts, old_text \in OldTexts :
          proc' = [proc EXCEPT ![p] = [@ EXCEPT !.pc = "exists",
                      !.op = "vector_memory_edit", !.label = label,
                      !.new_text = new_text, !.old_text = old_text]]
    /\ UNCHANGED memVars
    /\ UNCHANGED outsideConcStore

\* The call begins: core_memory_edit(label, new_text, old_text).
StartCoreEdit(p) ==
    /\ p \in Writers
    /\ proc[p].pc = "idle"
    /\ \E label \in ConcCoreLabels, new_text \in ConcNewTexts, old_text \in OldTexts :
          proc' = [proc EXCEPT ![p] = [@ EXCEPT !.pc = "exists",
                      !.op = "core_memory_edit", !.label = label,
                      !.new_text = new_text, !.old_text = old_text]]
    /\ UNCHANGED memVars
    /\ UNCHANGED outsideConcStore

\* The directory the call of thread p edits.
DirOf(p) == IF proc[p].op = "vector_memory_edit" THEN vector_dir ELSE core_dir

\* os.path.exists(filepath)
EditExists(p) ==
    /\ proc[p].pc = "exists"
    /\ proc' = [proc EXCEPT ![p] =
          IF DirOf(p)[proc[p].label].exists THEN [@ EXCEPT !.pc = "load"]
          ELSE IF proc[p].op = "vector_memory_edit" THEN [@ EXCEPT !.pc = "create"]
          ELSE [@ EXCEPT !.pc = "done",
                  !.ret = "Failed: Core memory block '" \o proc[p].label
                             \o "' does not exist."]]
    /\ UNCHANGED memVars
    /\ UNCHANGED outsideConcStore

\* vector_memory_edit writes the new block's file.
EditCreate(p) ==
    /\ proc[p].pc = "create"
    /\ vector_dir' = [vector_dir EXCEPT
          ![proc[p].label] = CreatedBlock(proc[p].new_text, now)]
    /\ proc' = [proc EXCEPT ![p] = [@ EXCEPT !.pc = "done",
          !.ret = "Success: New vector memory block '" \o proc[p].label
                     \o "' created."]]
    /\ UNCHANGED <<core_dir, embedding_dir, cache_file, now, lastCall,
                   editedSinceEmbed>>
    /\ UNCHANGED outsideConcStore

\* json.load of the block, the new content and the size check.
EditLoad(p) ==
    /\ proc[p].pc = "load"
    /\ LET data == DirOf(p)[proc[p].label]
           content == EditedContent(data.content, proc[p].new_text, proc[p].old_text)
       IN  proc' = [proc EXCEPT ![p] =
              IF ExceedsLimit(Len(content), data.max_chars)
              THEN [@ EXCEPT !.pc = "done", !.ret = FailedExceeds(data.max_chars)]
              ELSE [@ EXCEPT !.data = data, !.content = content,
                       !.pc = IF proc[p].op = "vector_memory_edit"
                              THEN "cache_load" ELSE "write"]]
    /\ UNCHANGED memVars
    /\ UNCHANGED outsideConcStore

\* clear_cache(label=label): load_cache()
EditCacheLoad(p) ==
    /\ proc[p].pc = "cache_load"
    /\ proc' = [proc EXCEPT ![p] = [@ EXCEPT !.cache = cache_file, !.pc = "cache_save"]]
    /\ UNCHANGED memVars
    /\ UNCHANGED outsideConcStore

\* clear_cache(label=label): cache.discard(label); save_cache(cache)
EditCacheSave(p) ==
    /\ proc[p].pc = "cache_save"
    /\ cache_file' = CacheWithout(proc[p].cache, proc[p].label)
    /\ proc' = [proc EXCEPT ![p] = [@ EXCEPT !.pc = "write"]]
    /\ UNCHANGED <<vector_dir, core_dir, embedding_dir, now, lastCall,
                   editedSinceEmbed>>
    /\ UNCHANGED outsideConcStore

\* json.dump of the updated block.
EditWrite(p) ==
    /\ proc[p].pc = "write"
    /\ LET block == UpdatedBlock(proc[p].data, proc[p].content, now) IN
       IF proc[p].op = "vector_memory_edit"
       THEN /\ vector_dir' = [vector_dir EXCEPT ![proc[p].label] = block]
            /\ UNCHANGED core_dir
       ELSE /\ core_dir' = [core_dir EXCEPT ![proc[p].label] = block]
            /\ UNCHANGED vector_dir
    /\ proc' = [proc EXCEPT ![p] = [@ EXCEPT !.pc = "done",
          !.ret = "Success: Vector memory block '" \o proc[p].label \o "' updated."]]
    /\ UNCHANGED <<embedding_dir, cache_file, now, lastCall, editedSinceEmbed>>
    /\ UNCHANGED outsideConcStore

\* embed_all begins: cache = load_cache(); updated_cache = set(cache)
EmbedLoadCache(p) ==
    /\ p \in Embedders
    /\ proc[p].pc = "idle"
    /\ proc' = [proc EXCEPT ![p] = [@ EXCEPT !.op = "embed_all", !.pc = "listdir",
          !.cache = cache_file, !.updated_cache = cache_file]]
    /\ UNCHANGED memVars
    /\ UNCHANGED outsideConcStore

\* os.listdir(VECTOR_DIR)
EmbedListDir(p) ==
    /\ proc[p].pc = "listdir"
    /\ proc' = [proc EXCEPT ![p] = [@ EXCEPT !.pc = "loop",
          !.todo = {l \in VectorLabels : vector_dir[l].exists}]]
    /\ UNCHANGED memVars
    /\ UNCHANGED outsideConcStore

\* One round of the loop up to ai.embed: a cached label is skipped, else the
\* block is read; a block of empty content is skipped.
EmbedRead(p) ==
    /\ proc[p].pc = "loop"
    /\ \E l \in proc[p].todo :
          proc' = [proc EXCEPT ![p] =
             IF l \in proc[p].cache \/ Strip(vector_dir[l].content) = ""
             THEN [@ EXCEPT !.todo = @ \ {l}]
             ELSE [@ EXCEPT !.todo = @ \ {l}, !.label = l, !.pc = "embed",
                      !.content = Strip(vector_dir[l].content)]]
    /\ UNCHANGED memVars
    /\ UNCHANGED outsideConcStore

\* ai.embed returns; the artifact is written and the label joins updated_cache.
EmbedWrite(p) ==
    /\ proc[p].pc = "embed"
    /\ embedding_dir' = [embedding_dir EXCEPT ![proc[p].label] = embed(proc[p].content)]
    /\ proc' = [proc EXCEPT ![p] = [@ EXCEPT !.pc = "loop",
          !.updated_cache = @ \cup {proc[p].label}]]
    /\ UNCHANGED <<vector_dir, core_dir, cache_file, now, lastCall, editedSinceEmbed>>
    /\ UNCHANGED outsideConcStore

\* save_cache(updated_cache) after the loop.
EmbedSaveCache(p) ==
    /\ proc[p].pc = "loop"
    /\ proc[p].todo = {}
    /\ cache_file' = proc[p].updated_cache
    /\ proc' = [proc EXCEPT ![p] = [@ EXCEPT !.pc = "done",
          !.ret = "Embedding complete. "
                    \o ToString(Cardinality(proc[p].updated_cache \ proc[p].cache))
                    \o " new files embedded."]]
    /\ UNCHANGED <<vector_dir, core_dir, embedding_dir, now, lastCall,
                   editedSinceEmbed>>
    /\ UNCHANGED outsideConcStore

ConcNext ==
    \E p \in Procs :
        \/ StartVectorEdit(p)
        \/ StartCoreEdit(p)
        \/ EditExists(p)
        \/ EditCreate(p)
        \/ EditLoad(p)
        \/ EditCacheLoad(p)
        \/ EditCacheSave(p)
        \/ EditWrite(p)
        \/ EmbedLoadCache(p)
        \/ EmbedListDir(p)
        \/ EmbedRead(p)
        \/ EmbedWrite(p)
        \/ EmbedSaveCache(p)

(***************************************************************************)
(* Sleep-time scheduler: sleeper_agent.py, class SleepTimeAgent.  Time is  *)
(* counted in seconds.  The main loop and the event processor are threads; *)
(* a step of the main loop is one test or one queue operation.             *)
(***************************************************************************)

\* The sleep of a paused round, hard-coded.
PAUSED_SLEEP == 2

\* Values of server_config.yaml (pause_delay_after_main, min_sleep_interval,
\* max_sleep_interval), small ones.
PAUSE_DELAY_AFTER_MAIN == 3
MIN_SLEEP_INTERVAL == 2
MAX_SLEEP_INTERVAL == 4

\* Bounds of the scheduler model.
MaxClock == 5
MaxTasks == 2
MaxNotifications == 2

None == [set |-> FALSE]
At(t) == [set |-> TRUE, at |-> t]

SystemEvent(event_type, timestamp) == [event_type |-> event_type, timestamp |-> timestamp]
\* created_at is only printed.
MemoryTask(data) == [data |-> data]

Min(a, b) == IF a <= b THEN a ELSE b

\* The scheduler as constructed, the clock reading t.
SchedInitAt(t) ==
    /\ state = "idle"
    /\ main_ai_active = FALSE
    /\ last_main_ai_activity = None
    /\ task_queue = <<>>
    /\ event_queue = <<>>
    /\ shutdown_event = FALSE
    /\ loop_pc = "while"
    /\ task = None
    /\ wake_at = 0
    /\ clock = t
    /\ tasks_added = 0
    /\ lastNotify = None
    /\ notifications = 0
    /\ turns_open = 0

SchedInit == SchedInitAt(0)

\* Seconds pass.
Tick ==
    /\ clock < MaxClock
    /\ clock' = clock + 1
    /\ UNCHANGED <<state, main_ai_active, last_main_ai_activity, task_queue,
                   event_queue, shutdown_event, loop_pc, task, wake_at,
                   tasks_added, lastNotify, notifications>>
    /\ UNCHANGED <<turns_open, outsideScheduler>>

\* The fields the two notifications write (with the histories kept of them).
notifyVars == <<main_ai_active, event_queue, lastNotify, notifications, turns_open>>

\* The scheduler fields a notification leaves alone.
notifyRest == <<state, last_main_ai_activity, task_queue, shutdown_event,
                loop_pc, task, wake_at, clock, tasks_added>>

notify_main_ai_start ==
    /\ main_ai_active' = TRUE
    /\ event_queue' = Append(event_queue, SystemEvent("main_ai_start", clock))
    /\ lastNotify' = At(clock)
    /\ notifications' = notifications + 1
    /\ turns_open' = turns_open + 1

notify_main_ai_end ==
    /\ main_ai_active' = FALSE
    /\ event_queue' = Append(event_queue, SystemEvent("main_ai_end", clock))
    /\ lastNotify' = At(clock)
    /\ notifications' = notifications + 1
    /\ turns_open' = turns_open - 1

\* A foreground turn starts and calls notify_main_ai_start.
ForegroundStarts ==
    /\ notifications < MaxNotifications
    /\ notify_main_ai_start
    /\ UNCHANGED notifyRest
    /\ UNCHANGED outsideScheduler

\* A foreground turn that has started ends and calls notify_main_ai_end.
ForegroundEnds ==
    /\ notifications < MaxNotifications
    /\ turns_open > 0
    /\ notify_main_ai_end
    /\ UNCHANGED notifyRest
    /\ UNCHANGED outsideScheduler

add_task ==
    /\ tasks_added < MaxTasks
    /\ task_queue' = Append(task_queue, MemoryTask("task " \o ToString(tasks_added + 1)))
    /\ tasks_added' = tasks_added + 1
    /\ UNCHANGED <<state, main_ai_active, last_main_ai_activity, event_queue,
                   shutdown_event, loop_pc, task, wake_at, clock, lastNotify,
                   notifications>>
    /\ UNCHANGED <<turns_open, outsideScheduler>>

\* _event_processor: event_queue.get, _handle_event.
_handle_event ==
    /\ ~shutdown_event
    /\ event_queue # <<>>
    /\ last_main_ai_activity' =
          IF Head(event_queue).event_type \in {"main_ai_start", "main_ai_end"}
          THEN At(Head(event_queue).timestamp)
          ELSE last_main_ai_activity
    /\ event_queue' = Tail(event_queue)
    /\ UNCHANGED <<state, main_ai_active, task_queue, shutdown_event, loop_pc,
                   task, wake_at, clock, tasks_added, lastNotify, notifications>>
    /\ UNCHANGED <<turns_open, outsideScheduler>>

\* _main_loop: while not self.shutdown_event.is_set()
LoopWhile ==
    /\ loop_pc = "while"
    /\ loop_pc' = IF shutdown_event THEN "exit" ELSE "should_pause"
    /\ UNCHANGED <<state, main_ai_active, last_main_ai_activity, task_queue,
                   event_queue, shutdown_event, task, wake_at, clock,
                   tasks_added, lastNotify, notifications>>
    /\ UNCHANGED <<turns_open, outsideScheduler>>

\* _should_pause: if self.main_ai_active: return True
LoopShouldPauseFlag ==
    /\ loop_pc = "should_pause"
    /\ IF main_ai_active
       THEN /\ state' = "paused"
            /\ wake_at' = clock + PAUSED_SLEEP
            /\ loop_pc' = "sleep"
       ELSE /\ loop_pc' = "time_since"
            /\ UNCHANGED <<state, wake_at>>
    /\ UNCHANGED <<main_ai_active, last_main_ai_activity, task_queue,
                   event_queue, shutdown_event, task, clock, tasks_added,
                   lastNotify, notifications>>
    /\ UNCHANGED <<turns_open, outsideScheduler>>

\* _should_pause after the flag: the time since the last activity.
TimeSincePauses_Ever(last_activity, t) == last_activity.set

TimeSincePauses(last_activity, t) ==
    last_activity.set /\ t - last_activity.at < PAUSE_DELAY_AFTER_MAIN

\* _should_pause: time_since < self.pause_delay_after_main, else False
LoopShouldPauseTime ==
    /\ loop_pc = "time_since"
    /\ IF TimeSincePauses(last_main_ai_activity, clock)
       THEN /\ state' = "paused"
            /\ wake_at' = clock + PAUSED_SLEEP
            /\ loop_pc' = "sleep"
       ELSE /\ loop_pc' = "empty"
            /\ UNCHANGED <<state, wake_at>>
    /\ UNCHANGED <<main_ai_active, last_main_ai_activity, task_queue,
                   event_queue, shutdown_event, task, clock, tasks_added,
                   lastNotify, notifications>>
    /\ UNCHANGED <<turns_open, outsideScheduler>>

\* _calculate_sleep_time, in whole seconds (1.5 * min_sleep_interval rounded up).
SleepTime(queue) ==
    IF queue = <<>> THEN Min(MAX_SLEEP_INTERVAL, (MIN_SLEEP_INTERVAL * 3 + 1) \div 2)
    ELSE MIN_SLEEP_INTERVAL

\* if not self.task_queue.empty(): state = PROCESSING; else state = IDLE, sleep
LoopEmpty ==
    /\ loop_pc = "empty"
    /\ IF task_queue # <<>>
       THEN /\ state' = "processing"
            /\ loop_pc' = "get"
            /\ UNCHANGED wake_at
       ELSE /\ state' = "idle"
            /\ wake_at' = clock + SleepTime(task_queue)
            /\ loop_pc' = "sleep"
    /\ UNCHANGED <<main_ai_active, last_main_ai_activity, task_queue,
                   event_queue, shutdown_event, task, clock, tasks_added,
                   lastNotify, notifications>>
    /\ UNCHANGED <<turns_open, outsideScheduler>>

\* task = self.task_queue.get(timeout=1)
LoopGet ==
    /\ loop_pc = "get"
    /\ IF task_queue # <<>>
       THEN /\ task' = At(Head(task_queue))
            /\ task_queue' = Tail(task_queue)
            /\ loop_pc' = "process"
            /\ UNCHANGED <<state, wake_at>>
       ELSE /\ state' = "idle"
            /\ wake_at' = clock + SleepTime(task_queue)
            /\ loop_pc' = "sleep"
            /\ UNCHANGED <<task, task_queue>>
    /\ UNCHANGED <<main_ai_active, last_main_ai_activity, event_queue,
                   shutdown_event, clock, tasks_added, lastNotify, notifications>>
    /\ UNCHANGED <<turns_open, outsideScheduler>>

\* self._process_task(task); task_done(); state = IDLE; sleep
LoopProcess ==
    /\ loop_pc = "process"
    /\ task' = None
    /\ state' = "idle"
    /\ wake_at' = clock + SleepTime(task_queue)
    /\ loop_pc' = "sleep"
    /\ UNCHANGED <<main_ai_active, last_main_ai_activity, task_queue,
                   event_queue, shutdown_event, clock, tasks_added, lastNotify,
                   notifications>>
    /\ UNCHANGED <<turns_open, outsideScheduler>>

\* time.sleep returns
LoopWake ==
    /\ loop_pc = "sleep"
    /\ clock >= wake_at
    /\ loop_pc' = "while"
    /\ UNCHANGED <<state, main_ai_active, last_main_ai_activity, task_queue,
                   event_queue, shutdown_event, task, wake_at, clock,
                   tasks_added, lastNotify, notifications>>
    /\ UNCHANGED <<turns_open, outsideScheduler>>

\* stop(): shutdown_event.set(); state = SHUTDOWN
stop ==
    /\ ~shutdown_event
    /\ shutdown_event' = TRUE
    /\ state' = "shutdown"
    /\ UNCHANGED <<main_ai_active, last_main_ai_activity, task_queue,
                   event_queue, loop_pc, task, wake_at, clock, tasks_added,
                   lastNotify, notifications>>
    /\ UNCHANGED <<turns_open, outsideScheduler>>

\* Seconds pass with the clock kept at MaxClock: the stored times move back
\* instead of the clock moving on (a time MaxClock or more ago stays at 0).
TickOn ==
    /\ clock = MaxClock
    /\ LET Back(t) == IF t > 0 THEN t - 1 ELSE 0
           BackAt(x) == IF x.set THEN At(Back(x.at)) ELSE x
       IN  /\ wake_at' = Back(wake_at)
           /\ last_main_ai_activity' = BackAt(last_main_ai_activity)
           /\ lastNotify' = BackAt(lastNotify)
           /\ event_queue' =
                 [i \in 1..Len(event_queue) |->
                     SystemEvent(event_queue[i].event_type,
                                 Back(event_queue[i].timestamp))]
    /\ UNCHANGED <<state, main_ai_active, task_queue, shutdown_event, loop_pc,
                   task, clock, tasks_added, notifications>>
    /\ UNCHANGED <<turns_open, outsideScheduler>>

\* A step of the thread of _main_loop.
MainLoopStep ==
    \/ LoopWhile
    \/ LoopShouldPauseFlag
    \/ LoopShouldPauseTime
    \/ LoopEmpty
    \/ LoopGet
    \/ LoopProcess
    \/ LoopWake

\* Foreground requests served at the same time: each one notifies its
\* start and, later, its end.
MaxRequests == 2
MaxRequestNotifications == 3

RequestStarts ==
    /\ notifications < MaxRequestNotifications
    /\ turns_open < MaxRequests
    /\ notify_main_ai_start
    /\ UNCHANGED notifyRest
    /\ UNCHANGED outsideScheduler

RequestEnds ==
    /\ notifications < MaxRequestNotifications
    /\ turns_open > 0
    /\ notify_main_ai_end
    /\ UNCHANGED notifyRest
    /\ UNCHANGED outsideScheduler

\* The main loop and its callers, with foreground requests that overlap.
RequestsNext ==
    \/ Tick
    \/ RequestStarts
    \/ RequestEnds
    \/ add_task
    \/ _handle_event
    \/ LoopWhile
    \/ LoopShouldPauseFlag
    \/ LoopShouldPauseTime
    \/ LoopEmpty
    \/ LoopGet
    \/ LoopProcess
    \/ LoopWake

SchedNext ==
    \/ Tick
    \/ ForegroundStarts
    \/ ForegroundEnds
    \/ add_task
    \/ _handle_event
    \/ LoopWhile
    \/ LoopShouldPauseFlag
    \/ LoopShouldPauseTime
    \/ LoopEmpty
    \/ LoopGet
    \/ LoopProcess
    \/ LoopWake
    \/ stop

(***************************************************************************)
(* Concurrent scheduler: async_sleeper_agent.py, class                     *)
(* AsyncSleepTimeAgent.  Its fields, its notifications, _handle_event and  *)
(* _should_pause are those of SleepTimeAgent; its main loop and the task   *)
(* wrappers are coroutines of one event loop, so a step runs a coroutine   *)
(* from one suspension (sleep, queue get, model query) to the next.        *)
(***************************************************************************)

\* The constructor's argument max_concurrent_tasks, and how many tasks are
\* added.
MAX_CONCURRENT_TASKS == 1
MaxAsyncTasks == 3

AsyncInit == processing = {}

\* add_task of the concurrent scheduler.
AsyncAddTask ==
    /\ tasks_added < MaxAsyncTasks
    /\ task_queue' = Append(task_queue, MemoryTask("task " \o ToString(tasks_added + 1)))
    /\ tasks_added' = tasks_added + 1
    /\ UNCHANGED <<state, main_ai_active, last_main_ai_activity, event_queue,
                   shutdown_event, loop_pc, task, wake_at, clock, lastNotify,
                   notifications, turns_open, processing, outsideAsync>>

\* _calculate_sleep_time, in whole seconds (1.2 * min_sleep_interval rounded up).
AsyncSleepTime(queue) ==
    IF queue = <<>> THEN Min(MAX_SLEEP_INTERVAL, (MIN_SLEEP_INTERVAL * 6 + 4) \div 5)
    ELSE MIN_SLEEP_INTERVAL

\* _main_loop from the while test to its next suspension: the paused sleep,
\* the queue get, or the sleep of a round without task.
AsyncLoopTop ==
    /\ loop_pc = "while"
    /\ IF shutdown_event
       THEN /\ loop_pc' = "exit"
            /\ UNCHANGED <<state, wake_at>>
       ELSE IF main_ai_active \/ TimeSincePauses(last_main_ai_activity, clock)
       THEN /\ state' = "paused"
            /\ wake_at' = clock + PAUSED_SLEEP
            /\ loop_pc' = "sleep"
       ELSE IF task_queue # <<>>
       THEN /\ state' = "processing"
            /\ loop_pc' = "get"
            /\ UNCHANGED wake_at
       ELSE /\ state' = "idle"
            /\ wake_at' = clock + AsyncSleepTime(task_queue)
            /\ loop_pc' = "sleep"
    /\ UNCHANGED <<main_ai_active, last_main_ai_activity, task_queue, event_queue,
                   shutdown_event, task, clock, tasks_added, lastNotify,
                   notifications, turns_open, processing, outsideAsync>>

\* The get returns: the task gets a wrapper, or goes back into the queue
\* when the pool is full; then IDLE and the sleep of the round.
AsyncLoopGet ==
    /\ loop_pc = "get"
    /\ task_queue # <<>>
    /\ IF Cardinality(processing) < MAX_CONCURRENT_TASKS
       THEN /\ processing' =
                  processing \cup {[task |-> Head(task_queue), running |-> FALSE]}
            /\ task_queue' = Tail(task_queue)
       ELSE /\ task_queue' = Append(Tail(task_queue), Head(task_queue))
            /\ UNCHANGED processing
    /\ state' = "idle"
    /\ wake_at' = clock + AsyncSleepTime(task_queue')
    /\ loop_pc' = "sleep"
    /\ UNCHANGED <<main_ai_active, last_main_ai_activity, event_queue,
                   shutdown_event, task, clock, tasks_added, lastNotify,
                   notifications, turns_open, outsideAsync>>

\* _process_task_wrapper takes the semaphore and calls _process_task.
WrapperStart ==
    /\ \E w \in processing :
          /\ ~w.running
          /\ Cardinality({v \in processing : v.running}) < MAX_CONCURRENT_TASKS
          /\ processing' = (processing \ {w}) \cup {[w EXCEPT !.running = TRUE]}
    /\ UNCHANGED <<schedVars, outsideAsync>>

\* _process_task returns: the wrapper leaves the set and the semaphore.
WrapperDone ==
    /\ \E w \in processing :
          /\ w.running
          /\ processing' = processing \ {w}
    /\ UNCHANGED <<schedVars, outsideAsync>>

AsyncNext ==
    \/ Tick
    \/ ForegroundStarts
    \/ ForegroundEnds
    \/ AsyncAddTask
    \/ _handle_event
    \/ AsyncLoopTop
    \/ AsyncLoopGet
    \/ LoopWake
    \/ WrapperStart
    \/ WrapperDone

(***************************************************************************)
(* Foreground turn: main.py, EnhancedAILLM.generate_response_stream, with  *)
(* the gateway (utils/ai.py) and the tool handler (utils/tool_handler.py)  *)
(* as its environment.  A step runs the generator to its next yield, or    *)
(* to the next call into the gateway or the tools.                         *)
(***************************************************************************)

\* The loop cap of generate_response_stream.
max_loops == 25

\* Values of server_config.yaml (max_tokens, sleep_agent_message_trigger).
MAX_TOKENS == 60
SLEEP_AGENT_MESSAGE_TRIGGER == 1

\* In one turn the gateway and the tools depart at most this often from the
\* plain tool-calling round (one tool_call chunk, one result).
MaxExtras == 1

\* The request, the prompt, and what the gateway and the tools may send.
UserMessage == "u"
SystemPrompt == "s"
ContentDeltas == {"x", " "}
ThinkingDeltas == {"t"}
ErrorDeltas == {"e"}
ToolNames == {"memory_search"}
Exceptions == {"boom"}

\* A tool call as the gateway delivers it, and execute_tool_call's answers.
ToolCall(name) == [function |-> [name |-> name]]
ToolOutcomes ==
    {[success |-> TRUE, result |-> At("m")],
     [success |-> TRUE, result |-> None],
     [success |-> FALSE, error |-> "boom"]}

Message(role, content) == [role |-> role, content |-> content]
Chunk(type, content, is_complete) ==
    [type |-> type, content |-> content, is_complete |-> is_complete]

RECURSIVE Join(_, _)
Join(strs, sep) ==
    IF strs = <<>> THEN ""
    ELSE IF Len(strs) = 1 THEN strs[1]
    ELSE strs[1] \o sep \o Join(Tail(strs), sep)

\* str.split(): the words between runs of spaces.
RECURSIVE Split(_)
Split(s) ==
    IF s = "" THEN <<>>
    ELSE IF CharAt(s, 1) = " " THEN Split(SubSeq(s, 2, Len(s)))
    ELSE LET n == IF Contains(s, " ") THEN Find(s, " ") - 1 ELSE Len(s)
         IN  <<SubSeq(s, 1, n)>> \o Split(SubSeq(s, n + 1, Len(s)))

\* json.dumps of a tool call and of a message.
ToolCallJson(tc) == "{\"function\": {\"name\": \"" \o tc.function.name \o "\"}}"

JsonDumps(m) ==
    "{\"role\": \"" \o m.role \o "\", \"content\": \""
       \o Replace(m.content, "\n", "\\n") \o "\""
       \o (IF "tool_calls" \in DOMAIN m
           THEN ", \"tool_calls\": ["
                   \o Join([i \in 1..Len(m.tool_calls) |-> ToolCallJson(m.tool_calls[i])], ", ")
                   \o "]"
           ELSE "")
       \o "}"

\* Four times sum(count_tokens(json.dumps(m))): count_tokens is len / 4.
RECURSIVE TotalChars(_)
TotalChars(messages) ==
    IF messages = <<>> THEN 0
    ELSE Len(JsonDumps(Head(messages))) + TotalChars(Tail(messages))

\* How many of the oldest messages trim_context removes.
RECURSIVE TrimCount(_, _)
TrimCount(messages, available_chars) ==
    IF messages # <<>> /\ TotalChars(messages) > available_chars
    THEN 1 + TrimCount(Tail(messages), available_chars)
    ELSE 0

trim_context_Dropped(messages, max_tokens, system_messages) ==
    LET n == TrimCount(messages, 4 * max_tokens - TotalChars(system_messages))
    IN  [kept |-> SubSeq(messages, n + 1, Len(messages)), trimmed |-> <<>>]

trim_context(messages, max_tokens, system_messages) ==
    LET n == TrimCount(messages, 4 * max_tokens - TotalChars(system_messages))
    IN  [kept |-> SubSeq(messages, n + 1, Len(messages)),
         trimmed |-> SubSeq(messages, 1, n)]

\* What process_tool_calls returns when execute_tool_call answers outcomes[i]
\* to tool_calls[i].
RECURSIVE process_tool_calls(_, _)
process_tool_calls(tool_calls, outcomes) ==
    IF tool_calls = <<>> THEN <<>>
    ELSE LET result == outcomes[1]
             rest == process_tool_calls(Tail(tool_calls), Tail(outcomes))
         IN  IF result.success
             THEN IF result.result.set THEN <<result.result.at>> \o rest ELSE rest
             ELSE <<"Error calling " \o tool_calls[1].function.name \o ": "
                       \o result.error>> \o rest

\* The text SleepTimeAgent.go makes of a list of messages.
GoText(messages) ==
    Join([i \in 1..Len(messages) |->
             messages[i].role \o ": "
                \o SubSeq(messages[i].content, 1, Min(100, Len(messages[i].content)))],
         "\n")

NewTurn ==
    [pc |-> "request", at_yield |-> FALSE, reasoning_loop_active |-> FALSE,
     loop_count |-> 0, complete_response |-> "", thinking_content |-> "",
     res_for_assistant_message |-> "", tool_calls |-> <<>>,
     tool_results |-> <<>>, to_yield |-> <<>>, last_chunk_type |-> "None",
     i |-> 0, streamed_response |-> ""]

NothingSent ==
    [last |-> None, last_iter |-> 0, count |-> 0, complete_count |-> 0,
     after_complete |-> FALSE, error_seen |-> FALSE, extras |-> 0,
     queries |-> 0]

\* No request yet.
TurnStart ==
    /\ context = <<>>
    /\ recall = <<>>
    /\ conversation_history = <<>>
    /\ message_counter = 0
    /\ turn = NewTurn
    /\ sent = NothingSent

\* initialize_ai_system() has succeeded or has failed.
TurnInit == ai_initialized \in BOOLEAN /\ TurnStart

\* The server with its AI system initialized.
ServerUp == ai_initialized = TRUE /\ TurnStart

\* The scheduler fields a turn never writes.
turnSchedRest == <<state, last_main_ai_activity, shutdown_event, loop_pc, task,
                   wake_at, clock, tasks_added>>

\* The history once chunk is yielded in round iter.
Yielded(chunk, iter) ==
    [sent EXCEPT !.last = chunk, !.last_iter = iter, !.count = @ + 1,
                 !.complete_count = IF chunk.is_complete THEN @ + 1 ELSE @,
                 !.after_complete = @ \/ sent.complete_count > 0]

\* The message of the fallback stream.
MockMessage == "AI system not initialized."

\* The chunk the handler of an internal exception yields.
ExceptionChunk_NotFinal(error_msg) == Chunk("error", error_msg, FALSE)

ExceptionChunk(error_msg) == Chunk("error", error_msg, TRUE)

\* The places of the try block where a call can raise.
ExceptionPoints == {"while", "stream", "append", "results", "after_loop", "trigger"}

\* The request arrives: history entry, counter, then the fallback or the
\* start of the turn up to the while loop.
Request ==
    /\ turn.pc = "request"
    /\ conversation_history' =
          Append(conversation_history, [user |-> UserMessage, ai |-> ""])
    /\ message_counter' = message_counter + 1
    /\ IF ~ai_initialized
       THEN /\ turn' = [turn EXCEPT !.pc = "mock"]
            /\ UNCHANGED <<context, notifyVars>>
       ELSE /\ context' = Append(context, Message("user", UserMessage))
            /\ turn' = [turn EXCEPT !.pc = "while", !.reasoning_loop_active = TRUE]
            /\ notify_main_ai_start
    /\ UNCHANGED <<ai_initialized, recall, sent, task_queue, turnSchedRest, outsideTurn>>

\* _mock_response_stream: one word more per chunk, the last one complete.
MockYield ==
    /\ turn.pc = "mock"
    /\ turn.i < Len(Split(MockMessage))
    /\ LET words == Split(MockMessage)
           streamed_response ==
               IF turn.i = 0 THEN words[1]
               ELSE turn.streamed_response \o " " \o words[turn.i + 1]
           is_complete == turn.i = Len(words) - 1
       IN  /\ turn' = [turn EXCEPT !.i = @ + 1, !.at_yield = TRUE,
                          !.streamed_response = streamed_response,
                          !.pc = IF is_complete THEN "done" ELSE "mock"]
           /\ sent' = Yielded(Chunk("content", streamed_response, is_complete), 0)
    /\ UNCHANGED <<ai_initialized, context, recall, conversation_history,
                   message_counter, notifyVars, task_queue, turnSchedRest,
                   outsideTurn>>

\* The test of the while loop.
WhileTest_NoCap(reasoning_loop_active, loop_count) == reasoning_loop_active

WhileTest(reasoning_loop_active, loop_count) ==
    reasoning_loop_active /\ loop_count < max_loops

\* The while test; a round begins: trim, recall, and the query is sent.
LoopTop ==
    /\ turn.pc = "while"
    /\ IF WhileTest(turn.reasoning_loop_active, turn.loop_count)
       THEN LET current_system_prompt == <<Message("system", SystemPrompt)>>
                trimmed == trim_context(context, MAX_TOKENS, current_system_prompt)
            IN  /\ context' = trimmed.kept
                /\ recall' = recall \o
                      [i \in 1..Len(trimmed.trimmed) |->
                          Message(trimmed.trimmed[i].role, trimmed.trimmed[i].content)]
                /\ turn' = [turn EXCEPT !.pc = "stream", !.at_yield = FALSE,
                               !.loop_count = @ + 1,
                               !.res_for_assistant_message = "",
                               !.tool_calls = <<>>]
                /\ sent' = [sent EXCEPT !.queries = @ + 1]
       ELSE /\ turn' = [turn EXCEPT !.pc = "after_loop", !.at_yield = FALSE]
            /\ UNCHANGED <<context, recall, sent>>
    /\ UNCHANGED <<ai_initialized, conversation_history, message_counter,
                   notifyVars, task_queue, turnSchedRest, outsideTurn>>

\* The gateway sends a content chunk.
ChunkContent ==
    /\ turn.pc = "stream"
    /\ sent.extras < MaxExtras
    /\ \E delta \in ContentDeltas :
          IF turn.last_chunk_type # "content" /\ Strip(delta) = ""
          THEN /\ turn' = [turn EXCEPT !.at_yield = FALSE]
               /\ sent' = [sent EXCEPT !.extras = @ + 1]
          ELSE /\ turn' = [turn EXCEPT !.at_yield = TRUE,
                              !.res_for_assistant_message = @ \o delta,
                              !.complete_response = @ \o delta,
                              !.last_chunk_type = "content"]
               /\ sent' = [Yielded(Chunk("content", turn.complete_response \o delta,
                                         FALSE), turn.loop_count)
                             EXCEPT !.extras = @ + 1]
    /\ UNCHANGED <<ai_initialized, context, recall, conversation_history,
                   message_counter, notifyVars, task_queue, turnSchedRest,
                   outsideTurn>>

\* The gateway sends a thinking chunk.
ChunkThinking ==
    /\ turn.pc = "stream"
    /\ sent.extras < MaxExtras
    /\ \E delta \in ThinkingDeltas :
          /\ turn' = [turn EXCEPT !.at_yield = TRUE,
                         !.thinking_content = @ \o delta,
                         !.last_chunk_type = "thinking"]
          /\ sent' = [Yielded(Chunk("thinking", turn.thinking_content \o delta,
                                    FALSE), turn.loop_count)
                        EXCEPT !.extras = @ + 1]
    /\ UNCHANGED <<ai_initialized, context, recall, conversation_history,
                   message_counter, notifyVars, task_queue, turnSchedRest,
                   outsideTurn>>

\* The gateway sends a tool_call chunk.
ChunkToolCall ==
    /\ turn.pc = "stream"
    /\ turn.tool_calls # <<>> => sent.extras < MaxExtras
    /\ \E name \in ToolNames :
          /\ turn' = [turn EXCEPT !.at_yield = TRUE,
                         !.tool_calls = Append(@, ToolCall(name)),
                         !.last_chunk_type = "tool_call"]
          /\ sent' = [Yielded(Chunk("tool_call", ToolCall(name), FALSE),
                              turn.loop_count)
                        EXCEPT !.extras = IF turn.tool_calls # <<>> THEN @ + 1 ELSE @]
    /\ UNCHANGED <<ai_initialized, context, recall, conversation_history,
                   message_counter, notifyVars, task_queue, turnSchedRest,
                   outsideTurn>>

\* The gateway sends an error chunk: the stream is left.
ChunkError ==
    /\ turn.pc = "stream"
    /\ sent.extras < MaxExtras
    /\ \E delta \in ErrorDeltas :
          turn' = [turn EXCEPT !.pc = "append", !.at_yield = FALSE,
                      !.complete_response = @ \o "\n\nERROR: " \o delta,
                      !.reasoning_loop_active = FALSE]
    /\ sent' = [sent EXCEPT !.error_seen = TRUE, !.extras = @ + 1]
    /\ UNCHANGED <<ai_initialized, context, recall, conversation_history,
                   message_counter, notifyVars, task_queue, turnSchedRest,
                   outsideTurn>>

\* The gateway's stream ends.
StreamEnd ==
    /\ turn.pc = "stream"
    /\ turn' = [turn EXCEPT !.pc = "append", !.at_yield = FALSE]
    /\ UNCHANGED <<ai_initialized, context, recall, conversation_history,
                   message_counter, sent, notifyVars, task_queue, turnSchedRest,
                   outsideTurn>>

\* How many of the outcomes are failures.
RECURSIVE Failures(_)
Failures(outcomes) ==
    IF outcomes = <<>> THEN 0
    ELSE (IF Head(outcomes).success THEN 0 ELSE 1) + Failures(Tail(outcomes))

\* The assistant message joins the context; the tool calls are executed.
AppendAssistant ==
    /\ turn.pc = "append"
    /\ context' = Append(context,
          IF turn.tool_calls # <<>>
          THEN [role |-> "assistant", content |-> turn.res_for_assistant_message,
                tool_calls |-> turn.tool_calls]
          ELSE Message("assistant", turn.res_for_assistant_message))
    /\ IF turn.tool_calls # <<>>
       THEN \E outcomes \in [1..Len(turn.tool_calls) -> ToolOutcomes] :
               /\ sent.extras + Failures(outcomes) <= MaxExtras
               /\ sent' = [sent EXCEPT !.extras = @ + Failures(outcomes)]
               /\ LET tool_results == process_tool_calls(turn.tool_calls, outcomes)
                  IN  turn' = [turn EXCEPT !.pc = "results", !.at_yield = FALSE,
                                  !.tool_results = tool_results,
                                  !.to_yield = tool_results]
       ELSE /\ turn' = [turn EXCEPT !.pc = "after_loop", !.at_yield = FALSE,
                           !.reasoning_loop_active = FALSE]
            /\ UNCHANGED sent
    /\ UNCHANGED <<ai_initialized, recall, conversation_history,
                   message_counter, notifyVars, task_queue, turnSchedRest,
                   outsideTurn>>

\* One tool result joins the context and is yielded.
YieldToolResult ==
    /\ turn.pc = "results"
    /\ turn.to_yield # <<>>
    /\ context' = Append(context, Message("tool", Head(turn.to_yield)))
    /\ turn' = [turn EXCEPT !.at_yield = TRUE, !.to_yield = Tail(@)]
    /\ sent' = Yielded(Chunk("tool_result", Head(turn.to_yield), FALSE),
                       turn.loop_count)
    /\ UNCHANGED <<ai_initialized, recall, conversation_history,
                   message_counter, notifyVars, task_queue, turnSchedRest,
                   outsideTurn>>

\* After the results: the loop goes on if there was any result.
EndToolResults ==
    /\ turn.pc = "results"
    /\ turn.to_yield = <<>>
    /\ turn' = [turn EXCEPT !.at_yield = FALSE,
                   !.reasoning_loop_active = (turn.tool_results # <<>>),
                   !.pc = IF turn.tool_results # <<>> THEN "while" ELSE "after_loop"]
    /\ UNCHANGED <<ai_initialized, context, recall, conversation_history,
                   message_counter, sent, notifyVars, task_queue, turnSchedRest,
                   outsideTurn>>

CapSuffix == "\n\n*AI seems to be thinking too hard and got stuck.*"

\* After the loop: the cap suffix, the history entry, notify_main_ai_end.
Finish ==
    /\ turn.pc = "after_loop"
    /\ LET complete_response ==
               IF turn.loop_count >= max_loops
               THEN turn.complete_response \o CapSuffix
               ELSE turn.complete_response
       IN  /\ turn' = [turn EXCEPT !.pc = "trigger", !.at_yield = FALSE,
                          !.complete_response = complete_response]
           /\ conversation_history' =
                 [conversation_history EXCEPT ![Len(conversation_history)].ai =
                     complete_response]
    /\ notify_main_ai_end
    /\ UNCHANGED <<ai_initialized, context, recall, message_counter, sent,
                   task_queue, turnSchedRest, outsideTurn>>

\* The positions of the user messages of a context.
UserIndices(messages) == {i \in 1..Len(messages) : messages[i].role = "user"}

\* The n-th largest member of a set of positions.
RECURSIVE NthLast(_, _)
NthLast(indices, n) ==
    LET max == CHOOSE i \in indices : \A j \in indices : j <= i
    IN  IF n = 1 THEN max ELSE NthLast(indices \ {max}, n - 1)

\* The sleep-agent trigger after notify_main_ai_end.
SleepTrigger ==
    /\ turn.pc = "trigger"
    /\ IF /\ SLEEP_AGENT_MESSAGE_TRIGGER > 0
          /\ message_counter >= SLEEP_AGENT_MESSAGE_TRIGGER
          /\ Cardinality(UserIndices(context)) >= SLEEP_AGENT_MESSAGE_TRIGGER
       THEN LET start_index == NthLast(UserIndices(context), SLEEP_AGENT_MESSAGE_TRIGGER)
                last_n_messages == SubSeq(context, start_index, Len(context))
            IN  /\ task_queue' = Append(task_queue, MemoryTask(GoText(last_n_messages)))
                /\ message_counter' = 0
       ELSE UNCHANGED <<task_queue, message_counter>>
    /\ turn' = [turn EXCEPT !.pc = "final", !.at_yield = FALSE]
    /\ UNCHANGED <<ai_initialized, context, recall, conversation_history, sent,
                   notifyVars, turnSchedRest, outsideTurn>>

\* The final chunk.
FinalYield ==
    /\ turn.pc = "final"
    /\ turn' = [turn EXCEPT !.pc = "done", !.at_yield = TRUE]
    /\ sent' = Yielded(Chunk("content", turn.complete_response, TRUE), turn.loop_count)
    /\ UNCHANGED <<ai_initialized, context, recall, conversation_history,
                   message_counter, notifyVars, task_queue, turnSchedRest,
                   outsideTurn>>

\* A call inside the try block raises: except Exception yields the error chunk.
RaiseException ==
    /\ turn.pc \in ExceptionPoints
    /\ \E e \in Exceptions :
          sent' = Yielded(ExceptionChunk("An error occurred: " \o e), turn.loop_count)
    /\ turn' = [turn EXCEPT !.pc = "done", !.at_yield = TRUE]
    /\ UNCHANGED <<ai_initialized, context, recall, conversation_history,
                   message_counter, notifyVars, task_queue, turnSchedRest,
                   outsideTurn>>

\* The consumer stops iterating: the generator is closed at its yield.
Abandon ==
    /\ turn.at_yield
    /\ turn.pc \notin {"done", "closed"}
    /\ turn' = [turn EXCEPT !.pc = "closed", !.at_yield = FALSE]
    /\ UNCHANGED <<ai_initialized, context, recall, conversation_history,
                   message_counter, sent, notifyVars, task_queue, turnSchedRest,
                   outsideTurn>>

TurnNext ==
    \/ Request
    \/ MockYield
    \/ LoopTop
    \/ ChunkContent
    \/ ChunkThinking
    \/ ChunkToolCall
    \/ ChunkError
    \/ StreamEnd
    \/ AppendAssistant
    \/ YieldToolResult
    \/ EndToolResults
    \/ Finish
    \/ SleepTrigger
    \/ FinalYield
    \/ RaiseException
    \/ Abandon

(***************************************************************************)
(* Background task: sleeper_agent.py, SleepTimeAgent._process_task, with   *)
(* the gateway and the tool handler as its environment.  A step runs the   *)
(* method to its next call into the gateway.                               *)
(***************************************************************************)

\* The loop cap of _process_task.
task_max_loops == 10

\* Value of server_config.yaml (sleep_agent_context), a small one.
SLEEP_AGENT_CONTEXT == 100

\* The tasks and the tools the agent's model may call.
TaskData == {"d"}
AgentToolNames == {"core_memory_edit", "finish_edits"}

\* mem.get_core_memory(): the values of the core blocks, label by label.
RECURSIVE CoreValues(_, _)
CoreValues(dir, labels) ==
    IF labels = {} THEN ""
    ELSE LET label == CHOOSE l \in labels : \A m \in labels : Len(l) <= Len(m)
         IN  (IF dir[label].exists
              THEN "<" \o label \o ">" \o dir[label].content ELSE "")
                \o CoreValues(dir, labels \ {label})

get_core_memory == CoreValues(core_dir, CoreLabels)

\* The arguments the agent's model gives core_memory_edit.
AgentEditLabel == "persona"
AgentEditNew == "b"
AgentEditOld == "a"

\* The core blocks after the successful core_memory_edit calls of a round:
\* each one is refused for a missing block or a content over the cap, and
\* writes the block otherwise.
RECURSIVE AgentCoreDir(_, _, _)
AgentCoreDir(dir, tool_calls, outcomes) ==
    IF tool_calls = <<>> THEN dir
    ELSE LET n == Len(tool_calls)
             before == AgentCoreDir(dir, SubSeq(tool_calls, 1, n - 1),
                                    SubSeq(outcomes, 1, n - 1))
             data == before[AgentEditLabel]
             content == EditedContent(data.content, AgentEditNew, AgentEditOld)
         IN  IF \/ tool_calls[n].function.name # "core_memory_edit"
                \/ ~outcomes[n].success
                \/ ~data.exists
             THEN before
             ELSE IF ExceedsLimit(Len(content), data.max_chars) THEN before
             ELSE [before EXCEPT ![AgentEditLabel] = UpdatedBlock(data, content, now)]

\* execute_tool_call's answers: finish_edits returns None, an edit a string.
AgentToolOutcomes(name) ==
    {[success |-> TRUE, result |-> IF name = "finish_edits" THEN None ELSE At("m")],
     [success |-> FALSE, error |-> "boom"]}

\* The message appended after a round without tool calls.
Nudge == "[This is an automated system message hidden from the user] Please try again, no tools were called. If you are done making edits, call the finish_edits function."

NoProcess ==
    [pc |-> "idle", reasoning_loop_active |-> FALSE, loop_count |-> 0,
     res_for_assistant_message |-> "", tool_calls |-> <<>>,
     system_messages |-> <<>>, tasks |-> 0, queries |-> 0,
     error_seen |-> FALSE, finish_seen |-> FALSE, extras |-> 0]

ProcessInit ==
    /\ agent_context = <<>>
    /\ process = NoProcess

\* _process_task is called: core memory, the task's message, the loop locals.
ProcessStart ==
    /\ process.pc = "idle"
    /\ process.tasks < MaxTasks
    /\ \E data \in TaskData :
          agent_context' = Append(agent_context, Message("user", data))
    /\ process' = [NoProcess EXCEPT !.pc = "while", !.reasoning_loop_active = TRUE,
                      !.system_messages =
                          <<Message("system", SystemPrompt \o "\n" \o get_core_memory)>>,
                      !.tasks = process.tasks + 1]
    /\ UNCHANGED outsideProcess

\* The test of the while loop of _process_task.
TaskWhileTest_NoCap(reasoning_loop_active, loop_count) == reasoning_loop_active

TaskWhileTest(reasoning_loop_active, loop_count) ==
    reasoning_loop_active /\ loop_count < task_max_loops

\* The while test; a round begins: trim (the trimmed part is dropped) and the
\* query is sent.  When the test fails the method returns.
ProcessLoopTop ==
    /\ process.pc = "while"
    /\ IF TaskWhileTest(process.reasoning_loop_active, process.loop_count)
       THEN /\ agent_context' =
                  trim_context(agent_context, SLEEP_AGENT_CONTEXT,
                               process.system_messages).kept
            /\ process' = [process EXCEPT !.pc = "stream", !.loop_count = @ + 1,
                              !.res_for_assistant_message = "",
                              !.tool_calls = <<>>, !.queries = @ + 1]
       ELSE /\ process' = [process EXCEPT !.pc = "idle"]
            /\ UNCHANGED agent_context
    /\ UNCHANGED outsideProcess

\* The gateway sends a content chunk.
ProcessChunkContent ==
    /\ process.pc = "stream"
    /\ process.extras < MaxExtras
    /\ \E delta \in ContentDeltas :
          process' = [process EXCEPT !.res_for_assistant_message = @ \o delta,
                                     !.extras = @ + 1]
    /\ UNCHANGED <<agent_context, outsideProcess>>

\* The gateway sends a tool_call chunk.
ProcessChunkToolCall ==
    /\ process.pc = "stream"
    /\ \E name \in AgentToolNames :
          LET plain == process.tool_calls = <<>> /\ name = "core_memory_edit"
          IN  /\ ~plain => process.extras < MaxExtras
              /\ process' = [process EXCEPT !.tool_calls = Append(@, ToolCall(name)),
                                 !.extras = IF plain THEN @ ELSE @ + 1]
    /\ UNCHANGED <<agent_context, outsideProcess>>

\* The gateway sends an error chunk: the stream is left.
ProcessChunkError ==
    /\ process.pc = "stream"
    /\ process.extras < MaxExtras
    /\ process' = [process EXCEPT !.pc = "append", !.reasoning_loop_active = FALSE,
                      !.error_seen = TRUE, !.extras = @ + 1]
    /\ UNCHANGED <<agent_context, outsideProcess>>

\* The gateway's stream ends.
ProcessStreamEnd ==
    /\ process.pc = "stream"
    /\ process' = [process EXCEPT !.pc = "append"]
    /\ UNCHANGED <<agent_context, outsideProcess>>

\* The assistant message, the tool calls and their results, or the nudge.
ProcessAppend ==
    /\ process.pc = "append"
    /\ LET tool_calls == process.tool_calls
           assistant_message ==
               IF tool_calls # <<>>
               THEN [role |-> "assistant",
                     content |-> process.res_for_assistant_message,
                     tool_calls |-> tool_calls]
               ELSE Message("assistant", process.res_for_assistant_message)
       IN  IF tool_calls # <<>>
           THEN \E outcomes \in [1..Len(tool_calls) -> ToolOutcomes] :
                   /\ \A i \in 1..Len(tool_calls) :
                         outcomes[i] \in AgentToolOutcomes(tool_calls[i].function.name)
                   /\ process.extras + Failures(outcomes) <= MaxExtras
                   /\ core_dir' = AgentCoreDir(core_dir, tool_calls, outcomes)
                   /\ LET tool_results == process_tool_calls(tool_calls, outcomes)
                      IN  /\ agent_context' =
                                Append(agent_context, assistant_message)
                                   \o [i \in 1..Len(tool_results) |->
                                          Message("tool", tool_results[i])]
                          /\ process' =
                                [process EXCEPT
                                    !.pc = "while",
                                    !.reasoning_loop_active = (tool_results # <<>>),
                                    !.finish_seen =
                                        @ \/ \E i \in 1..Len(tool_calls) :
                                                tool_calls[i].function.name = "finish_edits",
                                    !.extras = @ + Failures(outcomes)]
           ELSE /\ agent_context' =
                      Append(Append(agent_context, assistant_message),
                             Message("user", Nudge))
                /\ process' = [process EXCEPT !.pc = "while",
                                  !.reasoning_loop_active = TRUE]
                /\ UNCHANGED core_dir
    /\ UNCHANGED <<vector_dir, embedding_dir, cache_file, now, lastCall,
                   editedSinceEmbed>>
    /\ UNCHANGED outsideAgent

\* A call inside the try block raises: the method prints and returns.
ProcessRaise ==
    /\ process.pc \in {"while", "stream", "append"}
    /\ process.extras < MaxExtras
    /\ process' = [process EXCEPT !.pc = "idle", !.extras = @ + 1]
    /\ UNCHANGED <<agent_context, outsideProcess>>

ProcessNext ==
    \/ ProcessStart
    \/ ProcessLoopTop
    \/ ProcessChunkContent
    \/ ProcessChunkToolCall
    \/ ProcessChunkError
    \/ ProcessStreamEnd
    \/ ProcessAppend
    \/ ProcessRaise

(***************************************************************************)
(* utils/context.py, trim_context, one call followed statement by          *)
(* statement.  Token counts are kept as numbers of characters: count_tokens *)
(* is len / 4, so four times a sum of counts is the sum of the lengths.     *)
(***************************************************************************)

\* The longest list of messages given to a call.
MaxTrimLen == 3

\* The messages, budgets and system prompts given to a call.
TrimMessages == {Message("user", "u"), Message("user", "uu"), Message("assistant", "x")}
TrimBudgets == {0, 8, 16, 17, 24}
TrimSystems == {<<>>, <<Message("system", "s")>>}

SeqsUpTo(S, n) == UNION {[1..k -> S] : k \in 0..n}

\* No call is running.
NoTrim == [pc |-> "idle"]

\* The call has reached its loop.
TrimEntered(messages, max_tokens, system_messages) ==
    [pc |-> "while",
     messages |-> messages,
     max_tokens |-> max_tokens,
     system_messages |-> system_messages,
     available_chars |-> 4 * max_tokens - TotalChars(system_messages),
     total_chars |-> TotalChars(messages),
     trimmed_messages |-> <<>>,
     messages_copy |-> messages]

TrimInit ==
    \E messages \in SeqsUpTo(TrimMessages, MaxTrimLen),
       max_tokens \in TrimBudgets, system_messages \in TrimSystems :
        trim = TrimEntered(messages, max_tokens, system_messages)

\* list.pop from an end that is never taken.
ListPop_Last(list) ==
    [item |-> list[Len(list)], rest |-> SubSeq(list, 1, Len(list) - 1)]

\* list.pop(0).
ListPop(list) == [item |-> Head(list), rest |-> Tail(list)]

\* A test that never finds the list empty.
NotMessagesCopy_Never(messages_copy) == FALSE

\* "if not messages_copy".
NotMessagesCopy(messages_copy) == messages_copy = <<>>

\* The while test holds and the copy is not empty: the oldest message moves
\* to the trimmed ones and the total is computed again.  pop on an empty
\* list raises IndexError.
TrimPop ==
    /\ trim.pc = "while"
    /\ trim.total_chars > trim.available_chars
    /\ ~NotMessagesCopy(trim.messages_copy)
    /\ trim' =
         IF trim.messages_copy = <<>> THEN [trim EXCEPT !.pc = "raised"]
         ELSE LET popped == ListPop(trim.messages_copy)
              IN  [trim EXCEPT !.messages_copy = popped.rest,
                               !.trimmed_messages = Append(@, popped.item),
                               !.total_chars = TotalChars(popped.rest)]
    /\ UNCHANGED outsideTrim

\* The while test holds and the copy is empty: break, and return.
TrimBreak ==
    /\ trim.pc = "while"
    /\ trim.total_chars > trim.available_chars
    /\ NotMessagesCopy(trim.messages_copy)
    /\ trim' = [trim EXCEPT !.pc = "returned"]
    /\ UNCHANGED outsideTrim

\* The while test fails: return.
TrimReturn ==
    /\ trim.pc = "while"
    /\ ~(trim.total_chars > trim.available_chars)
    /\ trim' = [trim EXCEPT !.pc = "returned"]
    /\ UNCHANGED outsideTrim

TrimNext == TrimPop \/ TrimBreak \/ TrimReturn

(***************************************************************************)
(* utils/tool_handler.py, ToolCallHandler.process_tool_calls, one call     *)
(* followed tool call by tool call.  A tool call arrives as an object      *)
(* (attributes) or as a dict; its arguments are a dict or JSON text.       *)
(***************************************************************************)

\* The longest list of tool calls given to a call.
MaxBatchLen == 2

\* self.tools and what the registered callables do when called with a
\* mapping: return a text, return None, raise.
RegisteredTools == {"memory_search", "vector_get", "finish_edits", "read_file"}

\* The outcome of a statement: a value, or an exception on its way up.
Returns(value) == [raised |-> FALSE, value |-> value]
Raises(class, str) == [raised |-> TRUE, class |-> class, str |-> str]

\* The classes that derive from Exception.
ExceptionClasses == {"Exception", "TypeError", "JSONDecodeError"}

\* A handler that lets the exceptions of the callables pass.
ExceptCatches_JsonOnly(class) == class = "JSONDecodeError"

\* "except Exception".
ExceptCatches(class) == class \in ExceptionClasses

\* Python values of the arguments: a dict, a list, or text.
PyDict == [py |-> "dict"]
PyList == [py |-> "list"]
PyStr(text) == [py |-> "str", text |-> text]

\* json.loads on the texts the model sends.
JsonLoads(text) ==
    CASE text = "{}" -> Returns(PyDict)
      [] text = "[]" -> Returns(PyList)
      [] OTHER -> Raises("JSONDecodeError", "Expecting property name")

\* The parameters of memory_search.
MemorySearchParameters == {"query", "n_neighbors", "top_n", "exclude"}

\* A call that passes arguments by keyword: TypeError for a keyword that
\* is no parameter of the callable.
CallWithKeywords(name, parameters, keywords, value) ==
    IF keywords \subseteq parameters THEN Returns(value)
    ELSE Raises("TypeError",
                name \o "() got an unexpected keyword argument '"
                    \o (CHOOSE k \in keywords \ parameters : TRUE) \o "'")

\* vector_get: return memory_search(query, topn=top_n, exclude="recall")
vector_get ==
    CallWithKeywords("memory_search", MemorySearchParameters,
                     {"topn", "exclude"}, At("m"))

\* self.tools[function_name]['function'](**args)
CallTool(function_name, args) ==
    IF args.py # "dict"
    THEN Raises("TypeError", "argument after ** must be a mapping, not " \o args.py)
    ELSE CASE function_name = "memory_search" -> Returns(At("m"))
           [] function_name = "vector_get" -> vector_get
           [] function_name = "finish_edits" -> Returns(None)
           [] OTHER -> Raises("Exception", "boom")

\* The tool calls the model sends: name (None when missing) and arguments.
BatchCall(format, name, arguments) ==
    [format |-> format, function |-> [name |-> name, arguments |-> arguments]]

BatchCalls ==
    {BatchCall(format, name, arguments) :
        format \in {"object", "dict"},
        name \in {None} \cup {At(n) : n \in RegisteredTools \cup {"nope"}},
        arguments \in {PyDict, PyStr("{}"), PyStr("{"), PyStr("[]")}}

Failure(error) == Returns([success |-> FALSE, error |-> error])

\* execute_tool_call: the dict it returns, or the exception it lets out.
execute_tool_call(tool_call) ==
    LET function_name == tool_call.function.name
        arguments == tool_call.function.arguments
        parsed == IF arguments.py = "str" THEN JsonLoads(arguments.text)
                  ELSE Returns(arguments)
        Handled(outcome) ==
            IF outcome.raised /\ ExceptCatches(outcome.class)
            THEN Failure(outcome.str)
            ELSE outcome
    IN  IF ~function_name.set THEN Failure("No function name provided")
        ELSE IF function_name.at \notin RegisteredTools
        THEN Failure("Tool '" \o function_name.at \o "' not found")
        ELSE IF parsed.raised /\ parsed.class = "JSONDecodeError"
        THEN Failure("Invalid JSON in arguments: " \o arguments.text)
        ELSE IF parsed.raised THEN Handled(parsed)
        ELSE LET result == CallTool(function_name.at, parsed.value)
             IN  IF result.raised THEN Handled(result)
                 ELSE Returns([success |-> TRUE, result |-> result.value])

\* The name process_tool_calls prints and puts into its error messages.
PrintedName(tool_call) ==
    IF tool_call.format = "object"
    THEN IF tool_call.function.name.set THEN tool_call.function.name.at ELSE "None"
    ELSE "unknown"

NoBatch == [pc |-> "idle"]

BatchEntered(tool_calls) ==
    [pc |-> "for", tool_calls |-> tool_calls, i |-> 1, results |-> <<>>,
     executed |-> <<>>]

BatchInit ==
    \E tool_calls \in SeqsUpTo(BatchCalls, MaxBatchLen) :
        batch = BatchEntered(tool_calls)

\* One round of the for loop: the next tool call is executed and what it
\* gave is appended (or the exception it let out ends the call).
BatchExecute ==
    /\ batch.pc = "for"
    /\ batch.i <= Len(batch.tool_calls)
    /\ LET tool_call == batch.tool_calls[batch.i]
           result == execute_tool_call(tool_call)
       IN  batch' =
             IF result.raised
             THEN [batch EXCEPT !.pc = "raised",
                                !.executed = Append(@, batch.i)]
             ELSE [batch EXCEPT
                     !.i = @ + 1,
                     !.executed = Append(@, batch.i),
                     !.results = @ \o process_tool_calls(
                                        <<ToolCall(PrintedName(tool_call))>>,
                                        <<result.value>>)]
    /\ UNCHANGED outsideBatch

\* The list is exhausted: return results.
BatchReturn ==
    /\ batch.pc = "for"
    /\ batch.i > Len(batch.tool_calls)
    /\ batch' = [batch EXCEPT !.pc = "returned"]
    /\ UNCHANGED outsideBatch

BatchNext == BatchExecute \/ BatchReturn

(***************************************************************************)
(* Recall memory: memtools.py, the table recalled_messages with            *)
(* append_to_recall and conversation_search.  CURRENT_TIMESTAMP counts     *)
(* whole seconds.  The table has no full-text index, so MATCH raises       *)
(* OperationalError and the search is the LIKE query.                      *)
(***************************************************************************)

\* The most rows the table comes to hold, and the last second of the clock.
MaxRows == 3
MaxDbClock == 1

\* What is appended and what is searched for.
RecallMessages == {Message("user", "Cat"), Message("assistant", "dog")}
SearchQueries == {"cat", "d"}
SearchNeighbors == 0..3
SearchLimits == 0..2

\* LIKE compares ASCII letters without regard to case.
Lowercase == [C |-> "c", D |-> "d"]

RECURSIVE Lower(_)
Lower(s) ==
    IF s = "" THEN ""
    ELSE (IF CharAt(s, 1) \in DOMAIN Lowercase THEN Lowercase[CharAt(s, 1)]
          ELSE CharAt(s, 1)) \o Lower(SubSeq(s, 2, Len(s)))

\* content LIKE '%query%', for a query without % and _.
Like(content, query) == Contains(Lower(content), Lower(query))

NoSearch == [query |-> "", n_neighbors |-> 0, limit |-> 0,
             match_ids |-> <<>>, snippets |-> <<>>]

\* init_recall_db on a new database.
RecallInit ==
    /\ recalled_messages = <<>>
    /\ db_clock = 0
    /\ search = NoSearch

RecallTick ==
    /\ db_clock < MaxDbClock
    /\ db_clock' = db_clock + 1
    /\ UNCHANGED <<recalled_messages, search>>
    /\ UNCHANGED outsideRecall

\* The rows append_to_recall inserts: AUTOINCREMENT ids, the default
\* timestamp.
InsertedRows(messages) ==
    [k \in 1..Len(messages) |->
        [id |-> Len(recalled_messages) + k,
         role |-> messages[k].role,
         content |-> messages[k].content,
         timestamp |-> db_clock]]

append_to_recall ==
    \E messages \in SeqsUpTo(RecallMessages, MaxRows - Len(recalled_messages)) :
        /\ messages # <<>>
        /\ recalled_messages' = recalled_messages \o InsertedRows(messages)
        /\ UNCHANGED <<db_clock, search>>
        /\ UNCHANGED outsideRecall

\* The orders in which "ORDER BY timestamp DESC" may deliver the rows of
\* the given ids: rows of one timestamp come in any order.
ByTimestampDesc(ids) ==
    {order \in [1..Cardinality(ids) -> ids] :
        /\ \A i, j \in 1..Cardinality(ids) : i # j => order[i] # order[j]
        /\ \A i, j \in 1..Cardinality(ids) :
              i < j => recalled_messages[order[i]].timestamp
                          >= recalled_messages[order[j]].timestamp}

\* ORDER BY of the ids themselves, newest first.
ByIdDesc(ids) ==
    {order \in [1..Cardinality(ids) -> ids] :
        \A i, j \in 1..Cardinality(ids) : i < j => order[i] > order[j]}

\* LIMIT ? with a limit that is not negative.
Limit(rows, limit) == SubSeq(rows, 1, Min(limit, Len(rows)))

\* A split that gives the odd neighbour to the rows after the match.
After_Ceil(n_neighbors) == (n_neighbors + 1) \div 2

After(n_neighbors) == n_neighbors \div 2

\* SELECT role, content ... WHERE id BETWEEN ? AND ? ORDER BY id ASC
SelectBetween(start_id, end_id) ==
    LET rows == SelectSeq(recalled_messages,
                    LAMBDA r : r.id >= start_id /\ r.id <= end_id)
    IN  [k \in 1..Len(rows) |-> <<rows[k].role, rows[k].content>>]

conversation_search ==
    \E query \in SearchQueries, n_neighbors \in SearchNeighbors,
       limit \in SearchLimits :
      \E order \in ByTimestampDesc({r \in 1..Len(recalled_messages) :
                        Like(recalled_messages[r].content, query)}) :
        LET match_ids == Limit(order, limit)
            after == After(n_neighbors)
            before == n_neighbors - after
        IN  /\ search' = [query |-> query, n_neighbors |-> n_neighbors,
                          limit |-> limit, match_ids |-> match_ids,
                          snippets |->
                             [i \in 1..Len(match_ids) |->
                                SelectBetween(
                                   IF match_ids[i] - before > 1
                                   THEN match_ids[i] - before ELSE 1,
                                   match_ids[i] + after)]]
            /\ UNCHANGED <<recalled_messages, db_clock>>
            /\ UNCHANGED outsideRecall

RecallNext == RecallTick \/ append_to_recall \/ conversation_search

(***************************************************************************)
(* The LLM gateway: ai.py, one LLM object and its query streams.  A query  *)
(* is followed event by event: the answer to the request, then the pieces  *)
(* the provider streams.                                                   *)
(***************************************************************************)
MaxPieces == 2
MaxQueries == 2

Providers == {"ollama", "openrouter"}

\* What a provider streams: a piece of text, a data line that is not JSON,
\* or a failure of the connection.
Text(text) == [kind |-> "text", text |-> text]
Malformed == [kind |-> "malformed"]
NetworkError == [kind |-> "raise"]

PieceTexts == {"x", "<think>y", "</think>", "<thi", "nk>"}

\* The Ollama client parses the stream itself and raises on a bad line.
Pieces(provider) ==
    {Text(t) : t \in PieceTexts} \cup {NetworkError}
        \cup (IF provider = "openrouter" THEN {Malformed} ELSE {})

Statuses == {200, 429, 500}

GatewayChunk(type, delta) == [type |-> type, delta |-> delta]

\* LLM.__init__
LLM(provider) ==
    [provider |-> provider, is_thinking |-> FALSE, pc |-> "idle", queries |-> 0,
     status |-> 200, input |-> <<>>, pos |-> 0, out |-> <<>>]

\* _process_chunk: the chunks yielded for a piece and the flag left behind.
RECURSIVE process_chunk(_, _)
process_chunk(content, is_thinking) ==
    IF content = "" THEN [chunks |-> <<>>, is_thinking |-> is_thinking]
    ELSE IF ~is_thinking
    THEN IF Contains(content, "<think>")
         THEN LET think_start == Find(content, "<think>")
                  rest == process_chunk(
                      SubSeq(content, think_start + Len("<think>"), Len(content)), TRUE)
              IN  [chunks |->
                      (IF think_start > 1
                       THEN <<GatewayChunk("content", SubSeq(content, 1, think_start - 1))>>
                       ELSE <<>>) \o rest.chunks,
                   is_thinking |-> rest.is_thinking]
         ELSE [chunks |-> <<GatewayChunk("content", content)>>, is_thinking |-> FALSE]
    ELSE IF Contains(content, "</think>")
         THEN LET think_end == Find(content, "</think>")
                  rest == process_chunk(
                      SubSeq(content, think_end + Len("</think>"), Len(content)), FALSE)
              IN  [chunks |->
                      (IF think_end > 1
                       THEN <<GatewayChunk("thinking", SubSeq(content, 1, think_end - 1))>>
                       ELSE <<>>) \o rest.chunks,
                   is_thinking |-> rest.is_thinking]
         ELSE [chunks |-> <<GatewayChunk("thinking", content)>>, is_thinking |-> TRUE]

GatewayInit == \E provider \in Providers : llm = LLM(provider)

\* query(messages): the generator is created; the flag is the object's.
GatewayQuery ==
    /\ llm.pc \in {"idle", "done"}
    /\ llm.queries < MaxQueries
    /\ \E status \in Statuses, input \in SeqsUpTo(Pieces(llm.provider), MaxPieces) :
          llm' = [llm EXCEPT !.pc = "request", !.queries = @ + 1, !.status = status,
                             !.input = input, !.pos = 0, !.out = <<>>]
    /\ UNCHANGED outsideGateway

\* The request is answered: chat(**params) of Ollama raises on a bad
\* status, which _stream_wrapper turns into an error chunk; the OpenRouter
\* path catches the HTTPError of raise_for_status itself.
GatewayRequest ==
    /\ llm.pc = "request"
    /\ llm' =
          IF llm.status = 200 THEN [llm EXCEPT !.pc = "lines"]
          ELSE [llm EXCEPT !.pc = "done",
                   !.out = <<GatewayChunk("error",
                        IF llm.provider = "openrouter" /\ llm.status = 429
                        THEN "Rate limit exceeded." ELSE "HTTP error")>>]
    /\ UNCHANGED outsideGateway

\* One piece of the stream is handled.
GatewayLine ==
    /\ llm.pc = "lines"
    /\ llm.pos < Len(llm.input)
    /\ LET piece == llm.input[llm.pos + 1] IN
       llm' =
          IF piece.kind = "raise"
          THEN [llm EXCEPT !.pc = "done", !.pos = @ + 1,
                   !.out = @ \o <<GatewayChunk("error", "network error")>>]
          ELSE IF piece.kind = "malformed"
          THEN [llm EXCEPT !.pos = @ + 1]
          ELSE IF llm.provider = "ollama"
          THEN [llm EXCEPT !.pos = @ + 1,
                   !.out = @ \o <<GatewayChunk("content", piece.text)>>]
          ELSE LET processed == process_chunk(piece.text, llm.is_thinking)
               IN  [llm EXCEPT !.pos = @ + 1, !.out = @ \o processed.chunks,
                       !.is_thinking = processed.is_thinking]
    /\ UNCHANGED outsideGateway

\* The provider's stream is exhausted.
GatewayExhausted ==
    /\ llm.pc = "lines"
    /\ llm.pos = Len(llm.input)
    /\ llm' = [llm EXCEPT !.pc = "done"]
    /\ UNCHANGED outsideGateway

GatewayNext == GatewayQuery \/ GatewayRequest \/ GatewayLine \/ GatewayExhausted

(***************************************************************************)
(* Specifications                                                          *)
(***************************************************************************)

vars == <<memVars, concVars, schedVars, turnVars, processVars, asyncVars,
          callVars>>

\* No function of the utilities is being followed.
NoCall == trim = NoTrim /\ batch = NoBatch /\ RecallInit /\ llm = LLM("ollama")

\* The parts other than the store and the foreground, as constructed.
AgentsInit == SchedInit /\ ProcessInit /\ AsyncInit /\ NoCall

Init == MemInit /\ ConcInit /\ AgentsInit /\ ServerUp

\* The start-up states with nothing embedded.
InitFresh == FreshStore /\ ConcInit /\ AgentsInit /\ ServerUp

InitTurn == FreshStore /\ ConcInit /\ AgentsInit /\ TurnInit

\* The store with one call at a time.
SeqNext == MemNext

\* The memory store, one call after another.
SpecMemory == Init /\ [][SeqNext]_vars

\* The memory store with nothing called but the two edits.
EditNext == VectorEdit \/ CoreEdit

SpecEdits == Init /\ [][EditNext]_vars

\* The vector store edited and searched.
SearchNext == VectorEdit \/ AnyVectorSearch

SpecSearch == Init /\ [][SearchNext]_vars

\* The memory store, edits and embed_all running concurrently.
SpecMemoryConc == Init /\ [][ConcNext]_vars

\* The sleep-time scheduler and its callers.
SpecScheduler == InitFresh /\ [][SchedNext]_vars

\* The scheduler with up to MaxRequests foreground requests at a time.
SpecRequests == InitFresh /\ [][RequestsNext]_vars

\* The scheduler as constructed, the clock reading MaxClock.
InitLive ==
    /\ FreshStore /\ ConcInit /\ ServerUp
    /\ SchedInitAt(MaxClock) /\ ProcessInit /\ AsyncInit /\ NoCall

\* The steps of the running scheduler and of its callers.
SchedLiveNext ==
    \/ TickOn
    \/ ForegroundStarts
    \/ ForegroundEnds
    \/ add_task
    \/ _handle_event
    \/ MainLoopStep

\* The running scheduler (stop is not called) with time that goes on for
\* ever and both threads scheduled again and again.
SpecSchedulerLive ==
    /\ InitLive
    /\ [][SchedLiveNext]_vars
    /\ WF_vars(TickOn)
    /\ WF_vars(MainLoopStep)
    /\ WF_vars(_handle_event)

\* The concurrent scheduler and its callers.
SpecAsync == InitFresh /\ [][AsyncNext]_vars

\* One foreground turn.
SpecTurn == InitTurn /\ [][TurnNext]_vars

\* The background tasks, one after another.
SpecProcess == InitFresh /\ [][ProcessNext]_vars

InitTrim ==
    /\ FreshStore /\ ConcInit /\ ServerUp
    /\ SchedInit /\ ProcessInit /\ AsyncInit
    /\ TrimInit /\ batch = NoBatch /\ RecallInit /\ llm = LLM("ollama")

\* One call of trim_context, which runs on until it returns or raises.
SpecTrim == InitTrim /\ [][TrimNext]_vars /\ WF_vars(TrimNext)

InitBatch ==
    /\ FreshStore /\ ConcInit /\ ServerUp
    /\ SchedInit /\ ProcessInit /\ AsyncInit
    /\ trim = NoTrim /\ BatchInit /\ RecallInit /\ llm = LLM("ollama")

\* One call of process_tool_calls.
SpecBatch == InitBatch /\ [][BatchNext]_vars

\* The recall database, appended to and searched.
SpecRecall == InitFresh /\ [][RecallNext]_vars

\* One LLM object answering queries.
InitGateway ==
    /\ FreshStore /\ ConcInit /\ ServerUp
    /\ SchedInit /\ ProcessInit /\ AsyncInit
    /\ trim = NoTrim /\ batch = NoBatch /\ RecallInit /\ GatewayInit

SpecGateway == InitGateway /\ [][GatewayNext]_vars

(***************************************************************************)
(* Claims about the memory store                                           *)
(***************************************************************************)

EditOps == {"vector_memory_edit", "core_memory_edit"}

\* The block the most recent edit call addressed.
LastEdited ==
    IF lastCall.op = "vector_memory_edit" THEN vector_dir[lastCall.label]
    ELSE core_dir[lastCall.label]

\* C2: after every successful core_memory_edit or vector_memory_edit (a vector
\* edit that creates a block included) the stored block has current_chars
\* equal to the length of its content and current_chars <= max_chars.
C2_SuccessfulEditWithinCap ==
    (lastCall.op \in EditOps /\ IsSuccess(lastCall.ret)) =>
        /\ LastEdited.current_chars = Len(LastEdited.content)
        /\ LastEdited.current_chars <= LastEdited.max_chars

\* C3: after a successful vector_memory_edit on label L, creating or updating,
\* L is absent from the embedding cache set until the next embed_all
\* completes, whatever edits, searches and clear_cache calls come between.
C3_EditedLabelNotCached == editedSinceEmbed \cap cache_file = {}

\* C3's case: v1 was embedded and cached, then edited; its artifact is stale.
C3_Witness ==
    /\ "v1" \in editedSinceEmbed
    /\ lastCall.op = "vector_memory_edit"
    /\ IsSuccess(lastCall.ret)
    /\ embedding_dir["v1"].exists
    /\ embedding_dir["v1"].of # Strip(vector_dir["v1"].content)

\* The content a vector or core edit would store exceeds the block's max_chars
\* (DEFAULT_MAX_CHARS for a block the edit creates).
WouldExceed(dir, label, new_text, old_text) ==
    IF dir[label].exists
    THEN Len(EditedContent(dir[label].content, new_text, old_text))
            > dir[label].max_chars
    ELSE Len(Strip(new_text)) > DEFAULT_MAX_CHARS

\* C5: a core or vector edit whose resulting content would exceed max_chars
\* returns a failure string and leaves the block's content, the block's
\* metadata and the embedding cache set exactly as they were.
C5_OversizeEditRejected ==
    [][\A new_text \in NewTexts, old_text \in OldTexts :
        /\ \A label \in VectorLabels :
              (/\ vector_memory_edit(label, new_text, old_text)
               /\ WouldExceed(vector_dir, label, new_text, old_text))
              => (/\ IsFailed(lastCall'.ret)
                  /\ UNCHANGED <<vector_dir, core_dir, cache_file>>)
        /\ \A label \in CoreLabels :
              (/\ core_memory_edit(label, new_text, old_text)
               /\ core_dir[label].exists
               /\ WouldExceed(core_dir, label, new_text, old_text))
              => (/\ IsFailed(lastCall'.ret)
                  /\ UNCHANGED <<vector_dir, core_dir, cache_file>>)]_vars

\* The content an edit of the existing block dir[label] computes is no longer
\* than the max_chars of the block.
FitsBlock(dir, label, new_text, old_text) ==
    Len(EditedContent(dir[label].content, new_text, old_text)) <= dir[label].max_chars

\* C23: an edit of an existing block, in either store, returns success (and
\* has stored the content it computed) exactly when the length of that
\* content is at most the max_chars of the block; otherwise it returns a
\* failure.  So a content of max_chars characters is stored and one of
\* max_chars + 1 characters is refused.
C23_EditSucceedsIffWithinMaxChars ==
    [][/\ \A l \in VectorLabels, n \in NewTexts, o \in OldTexts :
            (/\ lastCall' = Call("vector_memory_edit", l, lastCall'.ret)
             /\ vector_dir[l].exists
             /\ vector_memory_edit(l, n, o)) =>
                IF FitsBlock(vector_dir, l, n, o)
                THEN /\ IsSuccess(lastCall'.ret)
                     /\ vector_dir'[l].content = EditedContent(vector_dir[l].content, n, o)
                ELSE IsFailed(lastCall'.ret) /\ vector_dir' = vector_dir
       /\ \A l \in CoreLabels, n \in NewTexts, o \in OldTexts :
            (/\ lastCall' = Call("core_memory_edit", l, lastCall'.ret)
             /\ core_dir[l].exists
             /\ core_memory_edit(l, n, o)) =>
                IF FitsBlock(core_dir, l, n, o)
                THEN /\ IsSuccess(lastCall'.ret)
                     /\ core_dir'[l].content = EditedContent(core_dir[l].content, n, o)
                ELSE IsFailed(lastCall'.ret) /\ core_dir' = core_dir]_vars

\* An edit has just stored a content of exactly max_chars characters in a
\* block that existed before.
C23_Witness ==
    /\ lastCall.op = "core_memory_edit"
    /\ IsSuccess(lastCall.ret)
    /\ Len(core_dir[lastCall.label].content) = core_dir[lastCall.label].max_chars
    /\ core_dir[lastCall.label].content # InitCoreDir[lastCall.label].content

ReplacedOrAppended(content, new_text, old_text) ==
    IF old_text # "" /\ Contains(content, old_text)
    THEN Replace(content, old_text, new_text)
    ELSE content \o " " \o new_text

\* C25: an accepted edit of an existing block, in either store, stores the
\* old content with all occurrences of old_text replaced by new_text when
\* old_text is not empty and occurs in it, and otherwise the old content
\* followed by one space and new_text.
C25_EditReplacesAllOrAppends ==
    [][/\ \A l \in VectorLabels, n \in NewTexts, o \in OldTexts :
            (/\ lastCall' = Call("vector_memory_edit", l, lastCall'.ret)
             /\ vector_dir[l].exists
             /\ IsSuccess(lastCall'.ret)
             /\ vector_memory_edit(l, n, o)) =>
                vector_dir'[l].content = ReplacedOrAppended(vector_dir[l].content, n, o)
       /\ \A l \in CoreLabels, n \in NewTexts, o \in OldTexts :
            (/\ lastCall' = Call("core_memory_edit", l, lastCall'.ret)
             /\ core_dir[l].exists
             /\ IsSuccess(lastCall'.ret)
             /\ core_memory_edit(l, n, o)) =>
                core_dir'[l].content = ReplacedOrAppended(core_dir[l].content, n, o)]_vars

\* The place of a label in ascending order of the labels.
LabelRank == [v1 |-> 1, v2 |-> 2]

\* C30: vector_search returns at most top_n results (none for top_n = 0),
\* each with a score of at least the threshold, in order of non-increasing
\* score, and results of equal score in ascending order of their labels.
C30_SearchResultsRankedAndCut ==
    lastCall.op = "vector_search" =>
        LET results == lastCall.results IN
        /\ Len(results) <= lastCall.top_n
        /\ \A i \in 1..Len(results) : results[i].score >= lastCall.threshold
        /\ \A i, j \in 1..Len(results) :
              i < j =>
                 /\ results[i].score >= results[j].score
                 /\ results[i].score = results[j].score =>
                       LabelRank[results[i].label] < LabelRank[results[j].label]

\* C31: an embed_all that directly follows an embed_all computes no
\* embedding, reports none, and leaves the cache set and every embedding
\* file as they were.
C31_SecondEmbedAllChangesNothing ==
    [][(/\ lastCall.op = "embed_all"
        /\ lastCall'.op = "embed_all"
        /\ embed_all) =>
           /\ ToEmbed(cache_file) = {}
           /\ lastCall'.ret = "Embedding complete. 0 new files embedded."
           /\ cache_file' = cache_file
           /\ embedding_dir' = embedding_dir]_vars

\* The second of two embed_all in a row has returned, the first having
\* embedded a block created since start-up.
C31_Witness ==
    /\ lastCall = Call("embed_all", "", "Embedding complete. 0 new files embedded.")
    /\ "v2" \in cache_file
    /\ embedding_dir["v2"].exists
    /\ editedSinceEmbed = {}

(***************************************************************************)
(* Claims about concurrent calls of the memory store                       *)
(***************************************************************************)

\* C4: in every interleaving of vector_memory_edit with a concurrent
\* embed_all, whenever a label is in the embedding cache set and its artifact
\* exists, the artifact was computed from the label's current content.
C4_CachedArtifactCurrent ==
    \A l \in VectorLabels :
        (l \in cache_file /\ embedding_dir[l].exists /\ vector_dir[l].exists)
        => embedding_dir[l].of = Strip(vector_dir[l].content)

\* What one whole call of vector_memory_edit makes of a block.
VectorEditResult(data, new_text, old_text, t) ==
    IF ~data.exists THEN CreatedBlock(new_text, t)
    ELSE LET content == EditedContent(data.content, new_text, old_text)
         IN  IF ExceedsLimit(Len(content), data.max_chars) THEN data
             ELSE UpdatedBlock(data, content, t)

\* What one whole call of core_memory_edit makes of a block.
CoreEditResult(data, new_text, old_text, t) ==
    IF ~data.exists THEN data
    ELSE LET content == EditedContent(data.content, new_text, old_text)
         IN  IF ExceedsLimit(Len(content), data.max_chars) THEN data
             ELSE UpdatedBlock(data, content, t)

\* The block left by the call of thread p run alone on block data.
RunAlone(p, data) ==
    IF proc[p].op = "vector_memory_edit"
    THEN VectorEditResult(data, proc[p].new_text, proc[p].old_text, now)
    ELSE CoreEditResult(data, proc[p].new_text, proc[p].old_text, now)

\* The block the two edits started from.
InitBlockOf(p) ==
    IF proc[p].op = "vector_memory_edit" THEN InitVectorDir[proc[p].label]
    ELSE InitCoreDir[proc[p].label]

\* Both edits have returned and they were edits of the same block.
BothEditedSameBlock ==
    /\ proc["w1"].pc = "done"
    /\ proc["w2"].pc = "done"
    /\ proc["w1"].op = proc["w2"].op
    /\ proc["w1"].label = proc["w2"].label

\* C6: two edits of the same label running concurrently leave the block that
\* running them one after the other, in one of the two orders, would leave
\* (no lost update).
C6_EditsSerialized ==
    BothEditedSameBlock =>
        DirOf("w1")[proc["w1"].label] \in
            {RunAlone("w2", RunAlone("w1", InitBlockOf("w1"))),
             RunAlone("w1", RunAlone("w2", InitBlockOf("w1")))}

(***************************************************************************)
(* Claims about the sleep-time scheduler                                   *)
(***************************************************************************)

\* The condition under which the scheduler is to hold its tasks back.
ForegroundBusy ==
    \/ main_ai_active
    \/ lastNotify.set /\ clock - lastNotify.at < PAUSE_DELAY_AFTER_MAIN

\* C1: while the foreground-active flag is true, or less than
\* pause_delay_after_main has passed since the last start/end notification,
\* the main loop removes no task from the task queue.
C1_NoDequeueWhileForegroundBusy ==
    [][Len(task_queue') < Len(task_queue) => ~ForegroundBusy]_vars

\* C17: a non-empty task queue leads to the main loop taking the queue head
\* in state PROCESSING unless the foreground is (again) active: with the
\* foreground ended and idle, the pause delay runs out, PAUSED is left and
\* the task is processed.
C17_QueuedTaskIsProcessed ==
    (task_queue # <<>> /\ ~shutdown_event)
       ~> \/ loop_pc = "process" /\ state = "processing"
          \/ main_ai_active

\* The main loop holds a task after a foreground turn ended and the pause
\* delay ran out.
C17_Witness ==
    /\ loop_pc = "process"
    /\ state = "processing"
    /\ ~main_ai_active
    /\ ~shutdown_event
    /\ last_main_ai_activity.set
    /\ lastNotify.set
    /\ clock - lastNotify.at >= PAUSE_DELAY_AFTER_MAIN

\* C18: after stop() the main loop starts no _process_task any more, and
\* when it has exited the task queue and the event queue are empty (what
\* was queued has been drained without being processed).
C18_NoTaskAfterStop ==
    [][/\ (shutdown_event /\ loop_pc' = "process") => loop_pc = "process"
       /\ loop_pc' = "exit" => (task_queue' = <<>> /\ event_queue' = <<>>)]_vars

\* C37: once stop() has set the state to SHUTDOWN, no step of the main
\* loop or of a caller writes another state.
C37_ShutdownStateStays ==
    [][(shutdown_event /\ state = "shutdown") => state' = "shutdown"]_vars

\* C38: while a foreground request that has notified its start has not
\* yet notified its end, the foreground-active flag is true, also when
\* another request that overlapped with it has ended.
C38_FlagTrueWhileAnyTurnOpen == turns_open > 0 => main_ai_active

\* The wrappers that hold the semaphore and run _process_task.
Running == {w \in processing : w.running}

\* The main loop of the concurrent scheduler hands the queue head to a wrapper.
AsyncTakeStep ==
    /\ task_queue # <<>>
    /\ task_queue' = Tail(task_queue)
    /\ processing' = processing \cup {[task |-> Head(task_queue), running |-> FALSE]}
    /\ processing' # processing

\* C19: the task queue is a FIFO whose tasks are handed over once each: it
\* changes only by a new task joining at its end or by its head leaving for
\* _process_task, in the concurrent scheduler as in the sequential one.
C19_TasksTakenInFifoOrder ==
    [][task_queue' # task_queue
          => \/ /\ Len(task_queue') = Len(task_queue) + 1
                /\ SubSeq(task_queue', 1, Len(task_queue)) = task_queue
             \/ AsyncTakeStep]_vars

\* C20: in the concurrent scheduler at most max_concurrent_tasks
\* _process_task run at a time, and no task is taken from the queue while
\* the foreground is active or within the pause delay.
C20_PoolBoundedAndGated ==
    [][/\ Cardinality(Running') <= MAX_CONCURRENT_TASKS
       /\ AsyncTakeStep => ~ForegroundBusy]_vars

(***************************************************************************)
(* Claims about the foreground turn                                        *)
(***************************************************************************)

\* The step that sends a query to the model.
QueryStep == turn.pc = "while" /\ turn'.pc = "stream"

\* C7: once the gateway has yielded an error chunk in a foreground turn, the
\* reasoning loop makes no further model query in that turn; the error text
\* is in the final chunk and the assistant content accumulated before the
\* error is appended to the context.
C7_NoQueryAfterErrorChunk ==
    [][/\ QueryStep => ~sent.error_seen
       /\ \A delta \in ErrorDeltas :
             (ChunkError /\ turn'.complete_response
                                = turn.complete_response \o "\n\nERROR: " \o delta)
             => /\ turn'.pc = "append"
                /\ turn'.res_for_assistant_message = turn.res_for_assistant_message
       /\ (FinalYield /\ sent.error_seen)
             => \E delta \in ErrorDeltas :
                   Contains(sent'.last.content, "ERROR: " \o delta)
       /\ AppendAssistant
             => context'[Len(context')].content = turn.res_for_assistant_message]_vars

\* The turn is over: the generator has returned or has been closed.
TurnOver == turn.pc \in {"done", "closed"}

\* C8: a turn that has called notify_main_ai_start has called
\* notify_main_ai_end by the time it is over, whichever way it ends; the
\* foreground-active flag is not left true.
C8_StartIsFollowedByEnd ==
    TurnOver => (turns_open = 0 /\ ~main_ai_active)

\* The request has ended other than by the consumer closing the stream.
RequestEnded == turn.pc = "done"

\* C9: every foreground request ends with exactly one chunk whose
\* is_complete is true, and no chunk is emitted after it.
C9_OneFinalChunk ==
    /\ ~sent.after_complete
    /\ sent.complete_count <= 1
    /\ RequestEnded => (sent.complete_count = 1 /\ sent.last.is_complete)

\* The request ended on an internal exception raised in round max_loops.
C9_Witness ==
    /\ RequestEnded
    /\ sent.last.type = "error"
    /\ turn.loop_count = max_loops
    /\ sent.count > max_loops

\* The place of a chunk type in the order of a round.
Phase(type) ==
    CASE type \in {"thinking", "content"} -> 1
      [] type = "tool_call" -> 2
      [] type = "tool_result" -> 3

\* C10: within one request the thinking/content chunks of round k come before
\* its tool_call chunks, these before its tool_result chunks, and these
\* before any chunk of round k+1.
C10_ChunksInCausalOrder ==
    [][(/\ sent'.count > sent.count
        /\ sent.count > 0
        /\ ~sent'.last.is_complete
        /\ ai_initialized)
       => \/ sent.last_iter < sent'.last_iter
          \/ /\ sent.last_iter = sent'.last_iter
             /\ Phase(sent.last.type) <= Phase(sent'.last.type)]_vars

\* C11: a foreground turn sends at most max_loops (25) queries to the model,
\* and once the 25th round is over the loop is left, whatever chunks the
\* model has sent.
C11_AtMostMaxLoopsQueries ==
    [][/\ sent'.queries <= max_loops
       /\ QueryStep => sent'.queries = sent.queries + 1
       /\ (turn.pc = "while" /\ sent.queries = max_loops /\ turn'.pc # "while")
             => turn'.pc \in {"after_loop", "done", "closed"}]_vars

\* The turn ran its 25 rounds and ended with the final content chunk.
C11_Witness ==
    /\ RequestEnded
    /\ sent.queries = max_loops
    /\ sent.last.type = "content"
    /\ Contains(sent.last.content, CapSuffix)

\* The role and the content of each message, as the recall log stores them.
RoleContent(messages) ==
    [i \in 1..Len(messages) |-> Message(messages[i].role, messages[i].content)]

\* The recall log followed by the context.
RecallThenContext == recall \o RoleContent(context)

\* C12: the messages trimming removes from the context are appended to the
\* recall log in their order and once, in the step that sends the query:
\* the recall log followed by the context only ever grows at its end.
C12_TrimmedTurnsRecalled ==
    [][/\ Len(RecallThenContext') >= Len(RecallThenContext)
       /\ SubSeq(RecallThenContext', 1, Len(RecallThenContext)) = RecallThenContext
       /\ Len(context') < Len(context) => QueryStep]_vars

\* A query has been sent with several turns trimmed into the recall log.
C12_Witness ==
    /\ turn.pc = "stream"
    /\ Len(recall) >= 2
    /\ recall[1] = Message("user", UserMessage)
    /\ context # <<>>

\* The step from notify_main_ai_end to the final chunk.
TriggerStep == turn.pc = "trigger" /\ turn'.pc = "final"

\* C13: at the end of a turn, a counter that has reached the trigger N
\* enqueues one memory task made of the context from the N-th last user
\* message on and is reset to 0; a counter below N enqueues nothing.
C13_TriggerEnqueuesAndResets ==
    [][TriggerStep =>
         IF message_counter >= SLEEP_AGENT_MESSAGE_TRIGGER
         THEN /\ Len(task_queue') = Len(task_queue) + 1
              /\ message_counter' = 0
              /\ Cardinality(UserIndices(context)) >= SLEEP_AGENT_MESSAGE_TRIGGER
                    => task_queue'[Len(task_queue')].data =
                          GoText(SubSeq(context,
                                        NthLast(UserIndices(context),
                                                SLEEP_AGENT_MESSAGE_TRIGGER),
                                        Len(context)))
         ELSE UNCHANGED <<task_queue, message_counter>>]_vars

(***************************************************************************)
(* Claims about the background task                                        *)
(***************************************************************************)

\* The step of _process_task that sends a query to the model.
ProcessQueryStep == process.pc = "while" /\ process'.pc = "stream"

\* C14: once an iteration of _process_task had finish_edits among its tool
\* calls, alone or with other tool calls, no further query is sent for the
\* task.
C14_NoQueryAfterFinishEdits ==
    [][ProcessQueryStep => ~process.finish_seen]_vars

\* C15: once the model has sent an error chunk, no further query is sent for
\* the task, with or without tool calls collected before the error.
C15_NoQueryAfterTaskError ==
    [][ProcessQueryStep => ~process.error_seen]_vars

\* C16: _process_task sends at most 10 queries and returns after the 10th
\* round, also when every round ends without a tool call and is nudged.
C16_AtMostTenQueries ==
    [][/\ process'.queries <= task_max_loops
       /\ (process.pc = "while" /\ process.queries = task_max_loops)
             => process'.pc = "idle"]_vars

\* The task returned after 10 rounds, the last one nudged, finish_edits never
\* called.
C16_Witness ==
    /\ process.pc = "idle"
    /\ process.queries = task_max_loops
    /\ ~process.finish_seen
    /\ agent_context # <<>>
    /\ agent_context[Len(agent_context)] = Message("user", Nudge)

\* C35: the system message of every query of _process_task holds the core
\* memory as it is when the query is sent, so that an edit made by a tool
\* call of one round is in the system message of the next round.
C35_SystemMessageFromFreshCoreMemory ==
    [][ProcessQueryStep =>
          process.system_messages =
              <<Message("system", SystemPrompt \o "\n" \o get_core_memory)>>]_vars

\* The messages of a context that are prompts of tasks.
TaskPrompts(messages) ==
    {i \in 1..Len(messages) :
        messages[i].role = "user" /\ messages[i].content \in TaskData}

\* C36: the context sent with a query of _process_task holds the turns of
\* the task being processed only: of the prompts of tasks it holds at most
\* the one of this task.
C36_QueryHoldsOneTaskOnly ==
    [][ProcessQueryStep => Cardinality(TaskPrompts(agent_context')) <= 1]_vars

(***************************************************************************)
(* Claims about trim_context                                               *)
(***************************************************************************)

\* C21: what trim_context returns as trimmed is the oldest prefix of
\* messages and what it returns as kept is the remaining suffix, both in the
\* original order: the trimmed messages followed by the kept ones are the
\* messages given, so none is lost, duplicated or reordered.
C21_TrimmedPrefixKeptSuffix ==
    trim.pc = "returned" =>
        trim.trimmed_messages \o trim.messages_copy = trim.messages

\* A call returns having trimmed two messages and kept one.
C21_Witness ==
    /\ trim.pc = "returned"
    /\ Len(trim.trimmed_messages) = 2
    /\ Len(trim.messages_copy) = 1
    /\ trim.trimmed_messages[1] # trim.trimmed_messages[2]

\* C22: when trim_context returns, the characters of what it kept are at
\* most four times max_tokens less the characters of the system messages
\* (the token estimates compared, times four), or it kept nothing; and every
\* call returns, also when the system messages alone exceed max_tokens.
C22_KeptFitsOrEmptyAndReturns ==
    /\ [](trim.pc = "returned" =>
            \/ TotalChars(trim.messages_copy)
                  <= 4 * trim.max_tokens - TotalChars(trim.system_messages)
            \/ trim.messages_copy = <<>>)
    /\ <>(trim.pc = "returned")

\* A call whose system message alone exceeds max_tokens has returned, all
\* of its messages trimmed.
C22_Witness ==
    /\ trim.pc = "returned"
    /\ TotalChars(trim.system_messages) > 4 * trim.max_tokens
    /\ trim.max_tokens > 0
    /\ trim.messages # <<>>
    /\ trim.messages_copy = <<>>

\* The whole number of tokens ceil(len(text) / 4), summed over the JSON
\* texts of messages.
RECURSIVE CeilTokens(_)
CeilTokens(messages) ==
    IF messages = <<>> THEN 0
    ELSE (Len(JsonDumps(Head(messages))) + 3) \div 4 + CeilTokens(Tail(messages))

\* C40: trim_context drops the oldest message exactly when the sum of the
\* whole-number estimates ceil(len / 4) of the messages it still holds
\* exceeds max_tokens minus the sum of the estimates of the system
\* messages.
C40_DropDecidedOnCeilEstimates ==
    [][(trim.pc = "while" /\ trim.messages_copy # <<>>) =>
          (Len(trim'.messages_copy) < Len(trim.messages_copy)
             <=> CeilTokens(trim.messages_copy)
                    > trim.max_tokens - CeilTokens(trim.system_messages))]_vars

(***************************************************************************)
(* Claims about process_tool_calls                                         *)
(***************************************************************************)

\* What execute_tool_call answers to the i-th tool call of the batch.
AnswerTo(i) == execute_tool_call(batch.tool_calls[i]).value

\* C26: process_tool_calls returns one entry for every tool call, in the
\* order of the calls: the returned value of a call that succeeded (also when
\* that value is None) and the error string of a call that failed; so the
\* results are as many as the tool calls.
C26_OneEntryPerToolCall ==
    batch.pc = "returned" =>
        /\ Len(batch.results) = Len(batch.tool_calls)
        /\ \A i \in 1..Len(batch.tool_calls) :
              IF AnswerTo(i).success
              THEN AnswerTo(i).result.set => batch.results[i] = AnswerTo(i).result.at
              ELSE batch.results[i] =
                     "Error calling " \o PrintedName(batch.tool_calls[i]) \o ": "
                        \o AnswerTo(i).error

\* The tool calls that name an unknown tool, carry JSON text that does not
\* parse or does not hold a mapping, or reach a callable that raises.
FailingCall(tool_call) ==
    LET name == tool_call.function.name
        arguments == tool_call.function.arguments
    IN  /\ name.set
        /\ \/ name.at \notin RegisteredTools
           \/ arguments \in {PyStr("{"), PyStr("[]")}
           \/ name.at \in {"read_file", "vector_get"}

\* The tool calls up to the i-th that leave an entry in the results: all
\* but those whose callable returned None.
EntriesUpTo(i) ==
    Cardinality({j \in 1..i : AnswerTo(j).success => AnswerTo(j).result.set})

IsErrorString(s) == Len(s) >= 14 /\ SubSeq(s, 1, 14) = "Error calling "

\* C27: process_tool_calls never raises.  When it returns, every tool call
\* of the batch has been executed, in order, and each call that named an
\* unknown tool, carried unparsable JSON or arguments that are no mapping, or
\* whose callable raised has left an error string in the results.
C27_ErrorsAreDataNeverRaised ==
    /\ batch.pc # "raised"
    /\ batch.pc = "returned" =>
          /\ batch.executed = [i \in 1..Len(batch.tool_calls) |-> i]
          /\ \A i \in 1..Len(batch.tool_calls) :
                FailingCall(batch.tool_calls[i]) =>
                    /\ EntriesUpTo(i) <= Len(batch.results)
                    /\ IsErrorString(batch.results[EntriesUpTo(i)])

\* A batch has returned whose first callable raised and whose second tool
\* call was executed after it and succeeded.
C27_Witness ==
    /\ batch.pc = "returned"
    /\ Len(batch.tool_calls) = 2
    /\ batch.tool_calls[1].function = [name |-> At("read_file"), arguments |-> PyDict]
    /\ batch.tool_calls[2].function = [name |-> At("memory_search"), arguments |-> PyStr("{}")]
    /\ batch.results = <<"Error calling read_file: boom", "m">>

\* C39: a vector_get tool call with arguments that are a mapping leaves
\* the report of memory_search in the results of process_tool_calls, not an
\* error string.
C39_VectorGetYieldsReport ==
    batch.pc = "returned" =>
        \A i \in 1..Len(batch.tool_calls) :
            (/\ batch.tool_calls[i].function.name = At("vector_get")
             /\ batch.tool_calls[i].function.arguments \in {PyDict, PyStr("{}")}) =>
                /\ AnswerTo(i).success
                /\ EntriesUpTo(i) <= Len(batch.results)
                /\ ~IsErrorString(batch.results[EntriesUpTo(i)])

(***************************************************************************)
(* Claims about conversation_search                                        *)
(***************************************************************************)

\* The step is a conversation_search: it leaves the table and the clock as
\* they are.
SearchStep == UNCHANGED <<recalled_messages, db_clock>>

\* The role and content of the rows with ids from lo to hi, in that order.
RowsFromTo(lo, hi) ==
    [k \in 1..(hi - lo + 1) |->
        <<recalled_messages[lo + k - 1].role, recalled_messages[lo + k - 1].content>>]

\* C28: conversation_search returns one snippet for each match id m: the
\* rows of the table with ids from max(1, m - before) to m + after, in
\* ascending order of id, where after = floor(n_neighbors / 2) and
\* before = n_neighbors - after.  The match row satisfies the query and lies
\* in its snippet; with n_neighbors = 0 the snippet is the match row alone,
\* with n_neighbors = 1 it is the row before the match and the match.
C28_SnippetIsIdRangeAroundMatch ==
    [][SearchStep =>
        /\ Len(search'.snippets) = Len(search'.match_ids)
        /\ \A i \in 1..Len(search'.match_ids) :
              LET m == search'.match_ids[i]
                  n == search'.n_neighbors
                  after == n \div 2
                  before == n - after
                  lo == IF m - before > 1 THEN m - before ELSE 1
                  hi == Min(m + after, Len(recalled_messages))
              IN  /\ Like(recalled_messages[m].content, search'.query)
                  /\ lo <= m /\ m <= hi
                  /\ search'.snippets[i] = RowsFromTo(lo, hi)
                  /\ n = 0 => search'.snippets[i] = RowsFromTo(m, m)
                  /\ n = 1 /\ m > 1 => search'.snippets[i] = RowsFromTo(m - 1, m)]_vars

\* A search with n_neighbors = 1 has returned the row before its match and
\* the match, and one with n_neighbors = 3 two rows before and one after.
C28_Witness ==
    /\ Len(recalled_messages) = 3
    /\ \/ /\ search.n_neighbors = 1
          /\ search.match_ids = <<3>>
          /\ search.snippets = <<RowsFromTo(2, 3)>>
       \/ /\ search.n_neighbors = 3
          /\ search.match_ids = <<2>>
          /\ search.snippets = <<RowsFromTo(1, 3)>>

\* The ids of the rows that satisfy the query.
Matching(query) ==
    {r \in 1..Len(recalled_messages) : Like(recalled_messages[r].content, query)}

\* C29: conversation_search returns at most limit match ids, the most
\* recently appended first: they are the highest ids among the rows that
\* satisfy the query, in descending order, so that with limit = 1 the match
\* is the newest such row, also among rows appended together.
C29_NewestMatchesFirst ==
    [][SearchStep =>
        /\ Len(search'.match_ids) <= search'.limit
        /\ \E order \in ByIdDesc(Matching(search'.query)) :
              search'.match_ids = Limit(order, search'.limit)]_vars

(***************************************************************************)
(* Claims about the LLM gateway                                            *)
(***************************************************************************)

\* The text a consumer of the stream has read in chunks of the types given.
RECURSIVE Deltas(_, _)
Deltas(chunks, types) ==
    IF chunks = <<>> THEN ""
    ELSE (IF Head(chunks).type \in types THEN Head(chunks).delta ELSE "")
            \o Deltas(Tail(chunks), types)

\* The text the provider has streamed so far.
RECURSIVE Streamed(_)
Streamed(pieces) ==
    IF pieces = <<>> THEN ""
    ELSE (IF Head(pieces).kind = "text" THEN Head(pieces).text ELSE "")
            \o Streamed(Tail(pieces))

\* The markers of a text alternate, from the state given.
RECURSIVE Alternating(_, _)
Alternating(text, inside) ==
    LET opens == Contains(text, "<think>")
        closes == Contains(text, "</think>")
    IN  IF ~opens /\ ~closes THEN TRUE
        ELSE IF ~inside
        THEN /\ opens
             /\ closes => Find(text, "<think>") < Find(text, "</think>")
             /\ Alternating(SubSeq(text, Find(text, "<think>") + Len("<think>"),
                                   Len(text)), TRUE)
        ELSE /\ closes
             /\ opens => Find(text, "</think>") < Find(text, "<think>")
             /\ Alternating(SubSeq(text, Find(text, "</think>") + Len("</think>"),
                                   Len(text)), FALSE)

\* C32: in the first stream of an LLM object, fed a text whose markers
\* alternate, the text read from the content and thinking chunks holds
\* neither marker, whichever the provider and however the text is split
\* into pieces.
C32_NoRawThinkMarkers ==
    (/\ llm.queries = 1
     /\ Alternating(Streamed(SubSeq(llm.input, 1, llm.pos)), FALSE)) =>
        LET seen == Deltas(llm.out, {"content", "thinking"})
        IN  ~Contains(seen, "<think>") /\ ~Contains(seen, "</think>")

\* A failure among the pieces handled so far, or of the request.
Failed ==
    \/ llm.pc \in {"lines", "done"} /\ llm.status # 200
    \/ \E i \in 1..llm.pos : llm.input[i].kind \in {"raise", "malformed"}

\* C33: once a failure has happened in a stream, the stream holds an error
\* chunk, and an error chunk is the last chunk of its stream.
C33_FailureIsLastErrorChunk ==
    /\ Failed => \E i \in 1..Len(llm.out) : llm.out[i].type = "error"
    /\ \A i \in 1..Len(llm.out) : llm.out[i].type = "error" => i = Len(llm.out)

\* C34: a stream whose first piece is plain text starts with that text as
\* a content chunk, whatever the streams before it were.
C34_StreamStartsOutsideThinking ==
    (/\ llm.pc \in {"lines", "done"}
     /\ llm.pos >= 1
     /\ llm.input[1] = Text("x")) =>
         /\ llm.out # <<>>
         /\ llm.out[1] = GatewayChunk("content", "x")

=============================================================================
